---- MODULE Spec2Model ----
(***************************************************************************)
(* Orchestration core of the VOX creative front-end:                       *)
(*   - the undo/redo timeline of VoxPage (sessionHistory / historyIndex),  *)
(*   - the capped activity log of Root (history / localStorage),           *)
(*   - the daily video quota of VoxPage,                                   *)
(*   - the retrying service client (executeWithApiKeyHandling and the chat *)
(*     variant sendMessageWithRetry).                                      *)
(* Each component has its own next-state relation and specification; the   *)
(* variables of the other components stay as Init leaves them.             *)
(***************************************************************************)
EXTENDS Integers, Sequences, FiniteSets, TLC

VARIABLES
    \* ---- VoxPage: editing state and undo/redo timeline
    sessionHistory,     \* SessionState[]: sequence of [image, prompt]
    historyIndex,       \* cursor into sessionHistory, -1 = empty document
    currentImage,       \* the active artifact (NoImage = null)
    prompt,             \* the prompt box
    \* ---- observers of the timeline (not program state)
    dropped,            \* how many snapshots newHistory.shift() has removed
    undoTrail,          \* "" | "undo" | "undo-redo": the last timeline operations
    beforeUndo,         \* timeline and cursor as they were when that undo began
    runPhase,           \* "push" | "undo" | "off": pushes from empty, then undos
    runPushes,          \* pushes counted while runPhase = "push"
    runUndos,           \* undos counted while runPhase = "undo"
    lastPush,           \* timeline and cursor the last step pushed onto, if it pushed
    \* ---- Root: activity log
    history,            \* HistoryItem[] in memory, newest first (items are their ids)
    lsHistory,          \* localStorage 'generationHistory' (<<>> = key absent)
    \* ---- observers of the activity log (not program state)
    clock,              \* source of the time-derived item ids
    storeThrew,         \* an exception has escaped a store operation
    lastRejected,       \* the last store operation met a capacity rejection
    lastSave,           \* the last store operation: what it was given and what the storage answered
    removals,           \* how many remove / clear / update operations have run
    storeFailed,        \* some setItem or removeItem call of a store operation has thrown
    \* ---- VoxPage: video quota and the metered video operation
    videoQuota,         \* remaining units, in memory
    lsQuota,            \* localStorage 'vox_video_quota' (NoEntry = key absent)
    lsQuotaDate,        \* localStorage 'vox_quota_date' (NoEntry = key absent)
    isGeneratingVideo,  \* a handleGenerateVideo call is in flight
    videoPhase,         \* "idle" | "started" | "submitted": where generateVideo is
    videoJob,           \* what the in-flight handleGenerateVideo closed over
    error,              \* the message attached to the current action ("" = null)
    today,              \* the calendar date, as a day number
    \* ---- observers of the quota (not program state)
    consumeLog,         \* the last handleGenerateVideo calls: [before, ok, day, storedDate]
    lastRedeem,         \* the last handleRedeemToken call: [before, ok, token], if it was last
    videoOutcome,       \* how the last video job ended, until the quota is used again
    \* ---- the retrying client: one outer call at a time
    rcPc,               \* "idle" | "calling" | "selecting" | "returned" | "threw"
    rcVariant,          \* "service" (executeWithApiKeyHandling) | "chat" (sendMessageWithRetry)
    rcAttempt,          \* 1 | 2: which invocation of the thunk is running
    rcEnv,              \* how the collaborators answer this outer call
    rcCaught,           \* the error the first attempt threw
    rcThrown,           \* the error the outer call rejects with
    \* ---- observers of the retrying client (not program state)
    rcFnCalls,          \* invocations of the thunk in this outer call
    rcSelectCalls,      \* invocations of openSelectKey in this outer call
    \* ---- generateVideo: one call of the video job poller at a time
    gvPc,               \* "idle" | "submitting" | "waiting" | "polling" | "fetching" |
                        \* "selecting" | "resolved" | "rejected"
    gvAttempt,          \* 1 | 2: which run of the thunk this is
    gvCancelled,        \* isCancelledRef.current, the flag shared with the caller
    gvAistudio,         \* window.aistudio exists
    gvCaught,           \* the error the first run of the thunk threw
    gvRejection,        \* the error generateVideo rejects with
    \* ---- observers of the poller (not program state)
    gvSubmits,          \* generateVideos requests issued in this call
    gvPolls,            \* getVideosOperation requests issued in this call
    gvFetches,          \* downloads of the video file issued in this call
    gvCancelAt,         \* where the job was when the flag was set ("" = not set)
    gvAfterCancel,      \* network requests issued after the flag was set
    gvFirstTick,        \* the flag as the first evaluation of the loop found it
    gvResubmits,        \* generateVideos requests issued after a job had been accepted
    gvDone,             \* operation.done as the loop condition last read it
    \* ---- VoxPage: the editing state the image operations read
    inputImages,        \* how many images are staged in the tray
    isInpaintingMode,   \* the mask canvas is mounted (maskCanvasRef.current is set)
    toolPrompt,         \* the prompt box of the tools panel
    isLoading,          \* an image operation is in flight
    opJob,              \* what the in-flight image handler closed over, and its route
    \* ---- observers of the operations (not program state)
    opBefore,           \* timeline, activity log and quota as the running attempt found them
    \* ---- Header: the chat panel
    userInput,          \* the text box
    uploadedImages,     \* how many images are attached to the next message
    vxogMode,           \* the persona selected in the side bar
    chatLoading,        \* isLoading of the chat panel
    chatJob,            \* the message being handled and the operation chosen for it
    messages,           \* how many messages the conversation shows
    imageHistory,       \* how many images the chat has produced
    \* ---- COSPage: the 20-image batch
    cosGenerating,      \* isGenerating
    cosCancelledRef,    \* isCancelledRef.current, one ref for the page
    cosLoops,           \* the handleGenerate calls awaiting a request: batch id, the
                        \* iteration i, and (observer) whether the batch was cancelled
    cosImages,          \* generatedImages: whose newImages were published last, how many
    cosError,           \* error
    \* ---- observers of the batch (not program state)
    cosBatches,         \* batches started
    cosLateCall,        \* a cancelled batch issued a request after its cancellation
    cosLatePublish      \* a cancelled batch published a result after its cancellation

stackVars == <<sessionHistory, historyIndex, currentImage, prompt>>
stackObs  == <<dropped, undoTrail, beforeUndo, runPhase, runPushes, runUndos, lastPush>>
storeVars == <<history, lsHistory>>
storeObs  == <<clock, storeThrew, lastRejected, lastSave, removals, storeFailed>>
quotaVars == <<videoQuota, lsQuota, lsQuotaDate, isGeneratingVideo, videoPhase, videoJob, error, today>>
quotaObs  == <<consumeLog, lastRedeem, videoOutcome>>
retryVars == <<rcPc, rcVariant, rcAttempt, rcEnv, rcCaught, rcThrown>>
retryObs  == <<rcFnCalls, rcSelectCalls>>
pollVars  == <<gvPc, gvAttempt, gvCancelled, gvAistudio, gvCaught, gvRejection>>
pollObs   == <<gvSubmits, gvPolls, gvFetches, gvCancelAt, gvAfterCancel, gvFirstTick, gvResubmits, gvDone>>
editVars  == <<inputImages, isInpaintingMode, toolPrompt, isLoading, opJob>>
opObs     == <<opBefore>>
chatVars  == <<userInput, uploadedImages, vxogMode, chatLoading, chatJob, messages, imageHistory>>
batchVars == <<cosGenerating, cosCancelledRef, cosLoops, cosImages, cosError>>
batchObs  == <<cosBatches, cosLateCall, cosLatePublish>>
vars == <<stackVars, stackObs, storeVars, storeObs, quotaVars, quotaObs, retryVars, retryObs,
          pollVars, pollObs, editVars, opObs, chatVars, batchVars, batchObs>>

-----------------------------------------------------------------------------
(* Constants of the program *)

COS_TOTAL == 20                    \* for (let i = 1; i <= 20; i++)
MAX_SESSION_HISTORY == 50
MAX_HISTORY_ITEMS == 10
MAX_TRAY == 6                      \* [...prev, ...newImages].slice(0, 6)
DAILY_FREE_QUOTA == 3

(* Bounds of the model *)

\* the shift() of a full timeline is explored this many times
MaxDropped == 2
\* batches of the COS page started
MaxBatches == 2
\* the user types into the prompt box, and picks which of two files to upload,
\* only while fewer than this many snapshots lie below the cursor position
MaxFreeDepth == 2
\* activity records created
MaxAppends == 11
\* redemptions are explored while they leave at most this many units
MaxQuota == 23
\* calendar days that pass
MaxDays == 2
\* handleGenerateVideo calls that consumeLog remembers
MaxLog == 3
\* remove, clear and update operations on the activity log
MaxRemovals == 1
\* ... which are explored while at most this many records have been created
MaxRemovalAt == 3
\* status polls of one generateVideo call
MaxPolls == 3
\* operations are started while the records created and the animations
\* requested are fewer than this
MaxOps == 2
\* images attached to one chat message
MaxAttached == 2
\* messages of the conversation
MaxMessages == 5
\* files are staged while the tray holds fewer than this many images
MaxStaged == 2

-----------------------------------------------------------------------------
(* Values *)

NoImage == 0                       \* null
EmptyPrompt == ""
Prompts == {EmptyPrompt, "a"}

\* the prompts of the operations model; "Merge them" and "recombine" carry
\* the words the chat router looks for
OpPrompts == {EmptyPrompt, "a", "Merge"}
\* what the user types into the chat
Instructions == {EmptyPrompt, "a", "Merge", "recombine", "blend"}
VxogModes == {"VXOG", "Veo"}

NoChatJob == [kind |-> "", input |-> EmptyPrompt, images |-> 0, mode |-> ""]

NoOpJob == [kind |-> "", sessionHistory |-> <<>>, historyIndex |-> -2, history |-> <<>>,
            prompt |-> EmptyPrompt, toolPrompt |-> EmptyPrompt, currentImage |-> NoImage,
            inputImages |-> 0, isInpaintingMode |-> FALSE]
NoBefore == [sessionHistory |-> <<>>, historyIndex |-> -2, history |-> <<>>,
             lsHistory |-> <<>>, videoQuota |-> -1, lsQuota |-> -1]

NoImages == [batch |-> 0, count |-> 0]
NoSave == [op |-> "", q |-> 0, final |-> "", removeOk |-> TRUE]

NoUndo == [hist |-> <<>>, idx |-> -2]
NoPush == [hist |-> <<>>, idx |-> -2]

SessionState(image, p) == [image |-> image, prompt |-> p]

\* how many snapshots have ever lain below the position the next push fills
Depth == dropped + historyIndex + 1

\* the files the user can pick at the current position: artifacts are numbered
\* by position, two per position while the position is below MaxFreeDepth
Uploadable ==
    IF Depth < MaxFreeDepth THEN {2 * Depth + 1, 2 * Depth + 2} ELSE {2 * Depth + 1}

-----------------------------------------------------------------------------
(* pushToSessionHistory: sh and hi are the sessionHistory and historyIndex  *)
(* of the render the handler closed over; prev is the live historyIndex    *)
(* that setHistoryIndex(prev => prev + 1) receives.                        *)

\* (mutant) the forward entries are not discarded
truncatedNothing(sh, hi) == sh

\* sessionHistory.slice(0, historyIndex + 1): slice stops at the end of the array
truncated(sh, hi) == SubSeq(sh, 1, IF hi + 1 > Len(sh) THEN Len(sh) ELSE hi + 1)

\* (mutant) the oldest entry is not dropped at capacity
pushedHistoryNoShift(sh, hi, image, p) ==
    Append(truncated(sh, hi), SessionState(image, p))

pushedHistory(sh, hi, image, p) ==
    LET newHistory == Append(truncated(sh, hi), SessionState(image, p))
    IN  IF Len(newHistory) > MAX_SESSION_HISTORY THEN Tail(newHistory) ELSE newHistory

pushedIndex(sh, hi, prev) ==
    IF Len(truncated(sh, hi)) + 1 > MAX_SESSION_HISTORY THEN prev ELSE prev + 1

pushShifts(sh, hi) == Len(truncated(sh, hi)) + 1 > MAX_SESSION_HISTORY

(* handleUndo / handleRedo: where the cursor goes *)

\* (mutant) undo from index 1 already resets to the empty document
undoIndexEarlyReset(hi) == IF hi > 1 THEN hi - 1 ELSE -1

undoIndex(hi) == IF hi > 0 THEN hi - 1 ELSE -1

redoEnabled(sh, hi) == hi < Len(sh) - 1

\* (mutant) redo restores the snapshot under the cursor without advancing
redoIndexStale(hi) == hi

redoIndex(hi) == hi + 1

\* what updateCurrentImage and setPrompt restore for a cursor position
restoredImage(sh, i) == IF i >= 0 THEN sh[i + 1].image ELSE NoImage
restoredPrompt(sh, i) == IF i >= 0 THEN sh[i + 1].prompt ELSE EmptyPrompt

\* sessionHistory[i] is an entry; when it is undefined, prevState.image
\* throws after setHistoryIndex has been called, and the image and the
\* prompt stay as they are
hasEntry(sh, i) == i < Len(sh)

-----------------------------------------------------------------------------
(* handleGenerate: which operation the editing state selects *)

\* (mutant) the artifact is looked at before the mask
voxRouteEditFirst(staged, inpainting, image) ==
    IF staged > 1 THEN "combine"
    ELSE IF image # NoImage THEN "edit"
    ELSE IF inpainting /\ image # NoImage THEN "inpaint"
    ELSE "generate"

\* maskCanvasRef.current: the canvas is rendered, and the ref set, exactly
\* while isInpaintingMode
maskMounted(inpainting) == inpainting

\* the painted mask outlives a render: initCanvases, which blanks the mask
\* canvas, runs only from the effect whose dependency is isInpaintingMode
\* (and on a window resize), so the mask is kept exactly when the mode was
\* on before the render and is still on after it
maskKept(before, after) == before /\ after

\* the if / else if chain of handleGenerate
voxRoute(staged, inpainting, image) ==
    IF staged > 1 THEN "combine"
    ELSE IF inpainting /\ image # NoImage /\ maskMounted(inpainting) THEN "inpaint"
    ELSE IF image # NoImage THEN "edit"
    ELSE "generate"

GenerateKinds == {"combine", "inpaint", "edit", "generate"}
ToolKinds == {"upscale", "refine", "reframe"}

\* (mutant) the push sits after the try block and runs on failure too
settledHistoryPushAnyway(ok, live, sh, hi, image, p) == pushedHistory(sh, hi, image, p)

\* the timeline an image handler leaves: the push is inside the try block,
\* after the awaited call; the catch block only sets the error
settledHistory(ok, live, sh, hi, image, p) ==
    IF ok THEN pushedHistory(sh, hi, image, p) ELSE live

\* what a failed operation has to leave alone
Snapshot == [sessionHistory |-> sessionHistory, historyIndex |-> historyIndex,
             history |-> history, lsHistory |-> lsHistory,
             videoQuota |-> videoQuota, lsQuota |-> lsQuota]

-----------------------------------------------------------------------------
(* The video quota *)

NoEntry == -1                      \* localStorage.getItem(...) === null
NoJob == [history |-> <<>>, currentImage |-> NoImage, videoQuota |-> -1]
NoRedeem == [before |-> -1, ok |-> FALSE, token |-> ""]

\* the quota effect that runs when VoxPage mounts: storedDate !== today
isNewDay(storedDate, day) == storedDate # day

\* useState(DAILY_FREE_QUOTA), then the effect's setVideoQuota
mountedQuota(storedQuota, storedDate, day) ==
    IF isNewDay(storedDate, day) THEN DAILY_FREE_QUOTA
    ELSE IF storedQuota # NoEntry THEN storedQuota
    ELSE DAILY_FREE_QUOTA

\* what the effect leaves under 'vox_video_quota'
mountedStoredQuota(storedQuota, storedDate, day) ==
    IF isNewDay(storedDate, day) THEN DAILY_FREE_QUOTA ELSE storedQuota

\* handleRedeemToken: token.toUpperCase() and the validTokens table
Tokens == {"VEO-FAST", "veo-fast", "GEMINI-VIDEO", "VXDL-PRO", "DEMO-123", "demo-123", "VEO"}

\* (mutant) the token is looked up as typed
toUpperCaseAsTyped(token) == token

toUpperCase(token) ==
    CASE token = "veo-fast" -> "VEO-FAST"
      [] token = "demo-123" -> "DEMO-123"
      [] OTHER -> token

\* validTokens[...]; 0 stands for undefined (both are falsy in if (value))
validTokens(key) ==
    CASE key = "VEO-FAST" -> 5
      [] key = "GEMINI-VIDEO" -> 10
      [] key = "VXDL-PRO" -> 20
      [] key = "DEMO-123" -> 3
      [] OTHER -> 0

tokenValue(token) == validTokens(toUpperCase(token))

\* (mutant) the bonus is taken off instead of added
redeemedQuotaSignSlip(quota, value) == quota - value

\* updateQuota(videoQuota + value)
redeemedQuota(quota, value) == quota + value

\* (mutant) the gate lets a call through at 0
quotaExhaustedBelowZero(quota) == quota < 0

\* if (videoQuota <= 0) { setError(...); return; }
quotaExhausted(quota) == quota <= 0

\* updateQuota(videoQuota - 1)
chargedQuota(quota) == quota - 1

\* (mutant) the unit is given back when the job fails
quotaAfterFailureRefunded(quota) == quota + 1

\* catch (err) { setError(err.message); /* strict consumption */ }
quotaAfterFailure(quota) == quota

-----------------------------------------------------------------------------
(* Errors and their messages.  A message is the sequence of its words and  *)
(* punctuation marks; includes and startsWith compare runs of them.        *)

includes(message, part) ==
    \E i \in 1 .. Len(message) - Len(part) + 1 :
        SubSeq(message, i, i + Len(part) - 1) = part

startsWith(message, part) ==
    Len(message) >= Len(part) /\ SubSeq(message, 1, Len(part)) = part

lowerWord(w) ==
    CASE w = "Failed" -> "failed"
      [] w = "Quota" -> "quota"
      [] w = "M" -> "m"
      [] w = "Forbidden" -> "forbidden"
      [] w = "The" -> "the"
      [] w = "Requested" -> "requested"
      [] w = "PERMISSION_DENIED" -> "permission_denied"
      [] w = "NOT_FOUND" -> "not_found"
      [] w = "Object" -> "object"
      [] w = "Video" -> "video"
      [] w = "Status" -> "status"
      [] OTHER -> w

toLowerCase(message) == [i \in 1 .. Len(message) |-> lowerWord(message[i])]

\* the characters of the strings the routers look at
letters(p) ==
    CASE p = "a" -> <<"a">>
      [] p = "Merge" -> <<"M", "e", "r", "g", "e">>
      [] p = "merge" -> <<"m", "e", "r", "g", "e">>
      [] p = "combine" -> <<"c", "o", "m", "b", "i", "n", "e">>
      [] p = "recombine" -> <<"r", "e", "c", "o", "m", "b", "i", "n", "e">>
      [] p = "blend" -> <<"b", "l", "e", "n", "d">>
      [] OTHER -> <<>>

\* currentInput.toLowerCase().includes('combine') || ...includes('merge')
mergeIntent(p) ==
    \/ includes(toLowerCase(letters(p)), letters("combine"))
    \/ includes(toLowerCase(letters(p)), letters("merge"))

\* (mutant) the chat combines whenever several images are attached
chatRouteNoIntent(attached, input, mode) ==
    IF attached > 1 THEN "combine"
    ELSE IF attached = 1 /\ input # EmptyPrompt /\ mode = "VXOG" THEN "edit"
    ELSE "chat"

\* the if / else if chain of handleSendMessage
chatRoute(attached, input, mode) ==
    IF attached > 1 /\ mergeIntent(input) THEN "combine"
    ELSE IF attached = 1 /\ input # EmptyPrompt /\ mode = "VXOG" THEN "edit"
    ELSE "chat"

\* an error value: isError is instanceof Error; status, code and inner.code
\* are 0 when undefined; message and inner.message are <<>> when no string
NoInner == [code |-> 0, message |-> <<>>]
ErrorValue(isError, message, status, code, inner) ==
    [isError |-> isError, message |-> message, status |-> status, code |-> code, inner |-> inner]
NewError(message) == ErrorValue(TRUE, message, 0, 0, NoInner)
NoError == ErrorValue(FALSE, <<>>, 0, 0, NoInner)

\* what the remote service rejects a call with
RemoteErrors == {
    ErrorValue(TRUE, <<"The", "caller", "does", "not", "have", "permission">>, 403, 0, NoInner),
    ErrorValue(TRUE, <<"PERMISSION_DENIED">>, 0, 403, NoInner),
    ErrorValue(TRUE, <<"Forbidden">>, 403, 0, NoInner),
    ErrorValue(FALSE, <<>>, 0, 0, [code |-> 403, message |-> <<"Forbidden">>]),
    ErrorValue(TRUE, <<"Requested", "entity", "was", "not", "found", ".">>, 404, 0, NoInner),
    ErrorValue(TRUE, <<"NOT_FOUND">>, 404, 0, NoInner),
    ErrorValue(TRUE, <<"Failed", "to", "fetch">>, 0, 0, NoInner),
    ErrorValue(TRUE, <<"Quota", "exceeded">>, 429, 0, NoInner) }

\* what the model writes when it returns text and no image
RefusalTexts == {
    <<"I", "cannot", "edit", "this", "image">>,
    <<"the", "sign", "shows", "a", "network", "error", "message">>,
    <<"the", "image", "says", "PERMISSION_DENIED">> }

\* throw new Error(`Model refusal: ${refusalText}`)
refusalError(text) == NewError(<<"Model", "refusal", ":">> \o text)
Refusals == {refusalError(text) : text \in RefusalTexts}

\* error.message || error.toString()
messageOf(e) ==
    IF e.message # <<>> THEN e.message
    ELSE IF e.isError THEN <<"Error">> ELSE <<"[", "object", "Object", "]">>

\* parseGeminiError
parseGeminiError(e) ==
    LET message ==
            IF e.isError THEN e.message
            ELSE IF e.inner.message # <<>> THEN e.inner.message
            ELSE IF e.message # <<>> THEN e.message
            ELSE <<"An", "unknown", "and", "unexpected", "error", "occurred", ".",
                   "Please", "try", "again", ".">>
        lowerMessage == toLowerCase(message)
    IN  IF includes(message, <<"Requested", "entity", "was", "not", "found", ".">>)
        THEN <<"The", "requested", "AI", "model", "is", "not", "available", "with", "your",
               "current", "API", "key", ".", "Please", "ensure", "your", "key", "has",
               "access", "to", "Gemini", "3.0", "Preview", "models", ".">>
        ELSE IF \/ includes(message, <<"does", "not", "have", "permission">>)
                \/ includes(message, <<"PERMISSION_DENIED">>)
        THEN <<"Permission", "denied", ".", "Your", "API", "key", "does", "not", "have",
               "access", "to", "this", "model", ".", "Please", "select", "a", "different",
               "key", "or", "check", "your", "Google", "Cloud", "project", "permissions", ".">>
        ELSE IF \/ includes(lowerMessage, <<"xhr", "error">>)
                \/ includes(lowerMessage, <<"network", "error">>)
                \/ includes(lowerMessage, <<"failed", "to", "fetch">>)
        THEN <<"A", "network", "connection", "error", "occurred", ".", "Please", "check",
               "your", "internet", "connection", "and", "try", "again", ".", "The", "API",
               "service", "may", "be", "temporarily", "unavailable", ".">>
        ELSE IF startsWith(message, <<"Model", "refusal", ":">>)
        THEN message
        ELSE IF \/ includes(lowerMessage, <<"safety", "policies">>)
                \/ includes(lowerMessage, <<"blocked">>)
        THEN <<"Your", "request", "was", "blocked", "due", "to", "safety", "policies", ".",
               "Please", "adjust", "your", "prompt", "and", "try", "again", ".">>
        ELSE IF includes(lowerMessage, <<"api", "key", "not", "valid">>)
        THEN <<"The", "provided", "API", "key", "is", "invalid", ".", "Please", "ensure",
               "it", "is", "configured", "correctly", ".">>
        ELSE IF includes(lowerMessage, <<"quota">>)
        THEN <<"API", "quota", "exceeded", ".", "Please", "check", "your", "usage", "and",
               "limits", ".">>
        ELSE IF \/ includes(lowerMessage, <<"resource", "has", "been", "exhausted">>)
                \/ includes(lowerMessage, <<"rate", "limit">>)
        THEN <<"The", "server", "is", "busy", "or", "you", "have", "hit", "a", "rate",
               "limit", ".", "Please", "try", "again", "in", "a", "moment", ".">>
        ELSE <<"An", "unexpected", "API", "error", "occurred", ":">> \o message

\* executeWithApiKeyHandling: the two classifications of the caught error
isPermissionDenied(e) ==
    \/ includes(messageOf(e), <<"does", "not", "have", "permission">>)
    \/ includes(messageOf(e), <<"PERMISSION_DENIED">>)
    \/ e.status = 403
    \/ e.code = 403
    \/ e.inner.code = 403

isNotFound(e) ==
    \/ includes(messageOf(e), <<"Requested", "entity", "was", "not", "found">>)
    \/ includes(messageOf(e), <<"NOT_FOUND">>)
    \/ e.status = 404
    \/ e.code = 404
    \/ e.inner.code = 404

\* sendMessageWithRetry: msg.includes(...) || e.status === 404
isChatNotFound(e) ==
    \/ includes(messageOf(e), <<"Requested", "entity", "was", "not", "found">>)
    \/ e.status = 404

\* what the thunk throws when the remote call rejects with raw: the thunks
\* of the service operations (generateImagesFromPrompt and the others) catch
\* it and throw new Error(parseGeminiError(raw)); the chat's sendMessage
\* rejects with raw itself
thrownBy(variant, raw) ==
    IF variant = "service" THEN NewError(parseGeminiError(raw)) ELSE raw

\* is the caught error one the client reselects the credential for
reauthEligible(variant, e) ==
    IF variant = "service" THEN isPermissionDenied(e) \/ isNotFound(e)
    ELSE isChatNotFound(e)

\* what openSelectKey rejects with, and what the chat's retry throws when
\* initChat() gave no chat
SelectRejection == NewError(<<"selection", "cancelled">>)
ChatNotInitialized == NewError(<<"Chat", "not", "initialized">>)

\* (mutant) the catch block around the reselection throws what it caught
rethrownFurther(original, further) == further

\* catch (e) { throw error; }: the error of the first attempt is thrown,
\* whatever the reselection or the retried attempt failed with
rethrown(original, further) == original

\* (mutant) a failure of the retried attempt is handled like the first
mayReauthEveryAttempt(attempt) == TRUE

\* the retried call sits inside the catch block (attempt === 1 in the chat)
mayReauth(attempt) == attempt = 1

\* how the collaborators answer one outer call
NoEnv == [aistudio |-> FALSE, selectOk |-> FALSE, chatInit |-> FALSE,
          first |-> NoError, second |-> NoError]
Envs == [aistudio : BOOLEAN, selectOk : BOOLEAN, chatInit : BOOLEAN,
         first : RemoteErrors \cup Refusals \cup {NoError},
         second : RemoteErrors \cup Refusals \cup {NoError}]

-----------------------------------------------------------------------------
Init ==
    /\ sessionHistory = <<>>
    /\ historyIndex = -1
    /\ currentImage = NoImage
    /\ prompt = EmptyPrompt
    /\ dropped = 0
    /\ undoTrail = ""
    /\ beforeUndo = NoUndo
    /\ runPhase = "push"
    /\ runPushes = 0
    /\ runUndos = 0
    /\ lastPush = NoPush
    /\ history = <<>>
    /\ lsHistory = <<>>
    /\ clock = 0
    /\ storeThrew = FALSE
    /\ lastRejected = FALSE
    /\ lastSave = NoSave
    /\ removals = 0
    /\ storeFailed = FALSE
    /\ today = 1
    /\ videoQuota = mountedQuota(NoEntry, NoEntry, 1)
    /\ lsQuota = mountedStoredQuota(NoEntry, NoEntry, 1)
    /\ lsQuotaDate = 1
    /\ isGeneratingVideo = FALSE
    /\ videoPhase = "idle"
    /\ videoJob = NoJob
    /\ error = ""
    /\ consumeLog = <<>>
    /\ lastRedeem = NoRedeem
    /\ videoOutcome = ""
    /\ rcPc = "idle"
    /\ rcVariant = "service"
    /\ rcAttempt = 1
    /\ rcEnv = NoEnv
    /\ rcCaught = NoError
    /\ rcThrown = NoError
    /\ rcFnCalls = 0
    /\ rcSelectCalls = 0
    /\ gvPc = "idle"
    /\ gvAttempt = 1
    /\ gvCancelled = FALSE
    /\ gvAistudio = FALSE
    /\ gvCaught = NoError
    /\ gvRejection = NoError
    /\ gvSubmits = 0
    /\ gvPolls = 0
    /\ gvFetches = 0
    /\ gvCancelAt = ""
    /\ gvAfterCancel = 0
    /\ gvFirstTick = "none"
    /\ gvResubmits = 0
    /\ gvDone = FALSE
    /\ inputImages = 0
    /\ isInpaintingMode = FALSE
    /\ toolPrompt = EmptyPrompt
    /\ isLoading = FALSE
    /\ opJob = NoOpJob
    /\ opBefore = NoBefore
    /\ userInput = EmptyPrompt
    /\ uploadedImages = 0
    /\ vxogMode = "VXOG"
    /\ chatLoading = FALSE
    /\ chatJob = NoChatJob
    /\ messages = 1
    /\ imageHistory = 0
    /\ cosGenerating = FALSE
    /\ cosCancelledRef = FALSE
    /\ cosLoops = <<>>
    /\ cosImages = NoImages
    /\ cosError = ""
    /\ cosBatches = 0
    /\ cosLateCall = FALSE
    /\ cosLatePublish = FALSE

-----------------------------------------------------------------------------
(* VoxPage handlers that act on the timeline *)

\* the user edits the prompt box (setPrompt from the textarea)
SetPrompt(p) ==
    /\ Depth < MaxFreeDepth
    /\ p # prompt
    /\ prompt' = p
    /\ lastPush' = NoPush
    /\ undoTrail' = IF undoTrail = "undo" THEN "undo" ELSE ""
    /\ beforeUndo' = IF undoTrail = "undo" THEN beforeUndo ELSE NoUndo
    /\ UNCHANGED <<sessionHistory, historyIndex, currentImage>>
    /\ UNCHANGED <<dropped, runPhase, runPushes, runUndos>>
    /\ UNCHANGED <<storeVars, storeObs, quotaVars, quotaObs, retryVars, retryObs>>
    /\ UNCHANGED <<pollVars, pollObs>>
    /\ UNCHANGED <<editVars, opObs>>
    /\ UNCHANGED <<chatVars, batchVars, batchObs>>

\* handleFileUpload, single-image flow: reader.onload shows the file and
\* pushes it with the prompt box's text
HandleFileUpload(image) ==
    /\ inputImages = 0
    /\ pushShifts(sessionHistory, historyIndex) => dropped < MaxDropped
    /\ isInpaintingMode' = FALSE
    /\ UNCHANGED <<inputImages, toolPrompt, isLoading, opJob, opObs>>
    /\ currentImage' = image
    /\ sessionHistory' = pushedHistory(sessionHistory, historyIndex, image, prompt)
    /\ historyIndex' = pushedIndex(sessionHistory, historyIndex, historyIndex)
    /\ dropped' = IF pushShifts(sessionHistory, historyIndex) THEN dropped + 1 ELSE dropped
    /\ undoTrail' = ""
    /\ beforeUndo' = NoUndo
    /\ runPhase' = IF runPhase = "push" THEN "push" ELSE "off"
    /\ runPushes' = IF runPhase = "push" THEN runPushes + 1 ELSE 0
    /\ runUndos' = 0
    /\ lastPush' = [hist |-> sessionHistory, idx |-> historyIndex]
    /\ UNCHANGED prompt
    /\ UNCHANGED <<storeVars, storeObs, quotaVars, quotaObs, retryVars, retryObs>>
    /\ UNCHANGED <<pollVars, pollObs>>
    /\ UNCHANGED <<chatVars, batchVars, batchObs>>

\* handleUndo (the button is disabled while historyIndex < 0)
HandleUndo ==
    /\ historyIndex >= 0
    /\ historyIndex' = undoIndex(historyIndex)
    /\ currentImage' = IF hasEntry(sessionHistory, undoIndex(historyIndex))
                       THEN restoredImage(sessionHistory, undoIndex(historyIndex))
                       ELSE currentImage
    /\ prompt' = IF hasEntry(sessionHistory, undoIndex(historyIndex))
                 THEN restoredPrompt(sessionHistory, undoIndex(historyIndex))
                 ELSE prompt
    /\ undoTrail' = "undo"
    /\ beforeUndo' = [hist |-> sessionHistory, idx |-> historyIndex]
    /\ runPhase' = IF runPhase \in {"push", "undo"} THEN "undo" ELSE "off"
    /\ runPushes' = IF runPhase \in {"push", "undo"} THEN runPushes ELSE 0
    /\ runUndos' = IF runPhase \in {"push", "undo"} THEN runUndos + 1 ELSE 0
    /\ lastPush' = NoPush
    /\ UNCHANGED <<sessionHistory, dropped>>
    /\ UNCHANGED <<storeVars, storeObs, quotaVars, quotaObs, retryVars, retryObs>>
    /\ UNCHANGED <<pollVars, pollObs>>
    /\ UNCHANGED <<editVars, opObs>>
    /\ UNCHANGED <<chatVars, batchVars, batchObs>>

\* handleRedo (the button is disabled at the tail)
HandleRedo ==
    /\ redoEnabled(sessionHistory, historyIndex)
    /\ historyIndex' = redoIndex(historyIndex)
    /\ currentImage' = restoredImage(sessionHistory, redoIndex(historyIndex))
    /\ prompt' = restoredPrompt(sessionHistory, redoIndex(historyIndex))
    /\ undoTrail' = IF undoTrail = "undo" THEN "undo-redo" ELSE ""
    /\ beforeUndo' = IF undoTrail = "undo" THEN beforeUndo ELSE NoUndo
    /\ runPhase' = "off"
    /\ runPushes' = 0
    /\ runUndos' = 0
    /\ lastPush' = NoPush
    /\ UNCHANGED <<sessionHistory, dropped>>
    /\ UNCHANGED <<storeVars, storeObs, quotaVars, quotaObs, retryVars, retryObs>>
    /\ UNCHANGED <<pollVars, pollObs>>
    /\ UNCHANGED <<editVars, opObs>>
    /\ UNCHANGED <<chatVars, batchVars, batchObs>>

-----------------------------------------------------------------------------
(* Root: the activity log and its durable copy *)

\* what localStorage.setItem / removeItem can answer
QuotaErrors == {"QuotaExceededError", "NS_ERROR_DOM_QUOTA_REACHED"}
OtherErrors == {"SecurityError", "TypeError"}
DOMExceptions == QuotaErrors \cup {"SecurityError"}

\* error instanceof DOMException && (error.name === ... || error.name === ...)
isQuotaError(e) == e \in DOMExceptions /\ e \in QuotaErrors

\* (mutant) the newest record is dropped first
popNewest(list) == Tail(list)

\* historyToSave.pop()
pop(list) == SubSeq(list, 1, Len(list) - 1)

\* the while loop of saveHistory over the answers of setItem, in order
RECURSIVE saveLoop(_, _)
saveLoop(historyToSave, answers) ==
    IF Len(historyToSave) = 0 THEN [kind |-> "emptied", list |-> <<>>]
    ELSE IF Head(answers) = "ok" THEN [kind |-> "saved", list |-> historyToSave]
    ELSE IF isQuotaError(Head(answers)) THEN saveLoop(pop(historyToSave), Tail(answers))
    ELSE [kind |-> "abandoned", list |-> <<>>]

\* saveHistory: the in-memory list it leaves (setHistory)
savedHistory(old, newHistory, answers) ==
    LET r == saveLoop(newHistory, answers)
    IN  CASE r.kind = "saved" -> r.list
          [] r.kind = "emptied" -> <<>>
          [] OTHER -> old

\* saveHistory: the durable copy it leaves (setItem / removeItem)
savedStorage(old, newHistory, answers, removeOk) ==
    LET r == saveLoop(newHistory, answers)
    IN  CASE r.kind = "saved" -> r.list
          [] r.kind = "emptied" -> IF removeOk THEN <<>> ELSE old
          [] OTHER -> old

\* saveHistory: does an exception reach the caller
saveThrows(newHistory, answers) == saveLoop(newHistory, answers).kind = "thrown"

\* (mutant) the new list is not cut to the item cap
cappedUncut(list) == list

\* [...].slice(0, MAX_HISTORY_ITEMS)
capped(list) == SubSeq(list, 1, IF Len(list) < MAX_HISTORY_ITEMS THEN Len(list) ELSE MAX_HISTORY_ITEMS)

\* (mutant) the new record goes to the end of the list
newHistoryWithAtEnd(item, hist) == capped(hist \o <<item>>)

\* addToHistory: hist is the history of the render the caller closed over
newHistoryWith(item, hist) == capped(<<item>> \o hist)

\* the answers of the storage to one saveHistory call: q capacity rejections
\* named qn, then final
Answers(q, qn, final) == [i \in 1 .. q |-> qn] \o <<final>>

\* what is noted of a saveHistory call: the capacity rejections it met, how
\* the last setItem ended if the list did not run empty first ("ok", or
\* "other" for an error that is not a capacity rejection), and whether
\* removeItem, if it was called, went through
saveNote(op, newHistory, q, final, removeOk) ==
    LET emptied == q >= Len(newHistory)
    IN  [op |-> op,
         q |-> IF emptied THEN Len(newHistory) ELSE q,
         final |-> IF emptied THEN "" ELSE IF final = "ok" THEN "ok" ELSE "other",
         removeOk |-> IF emptied THEN removeOk ELSE TRUE]

\* the answers that make a difference to a saveHistory call on n records:
\* no more rejections than records, an error name only if there is a
\* rejection, a last answer only if setItem is still called, and an answer
\* of removeItem only if it is called
Heard(n, q, qn, final, removeOk) ==
    /\ q <= n
    /\ q = 0 => qn = "QuotaExceededError"
    /\ q >= n => final = "ok"
    /\ q < n => removeOk

storeOthers == <<stackVars, stackObs, quotaVars, quotaObs, retryVars, retryObs,
                 pollVars, pollObs, editVars, opObs, chatVars, batchVars, batchObs>>

\* addToHistory(item) and the saveHistory it calls
AddToHistory(item, q, qn, final, removeOk) ==
    LET newHistory == newHistoryWith(item, history)
        answers == Answers(q, qn, final)
    IN  /\ history' = savedHistory(history, newHistory, answers)
        /\ lsHistory' = savedStorage(lsHistory, newHistory, answers, removeOk)
        /\ storeThrew' = (storeThrew \/ saveThrows(newHistory, answers))
        /\ lastRejected' = (q > 0)
        /\ lastSave' = saveNote("append", newHistory, q, final, removeOk)
        /\ removals' = removals
        /\ storeFailed' = (storeFailed \/ q > 0 \/ final # "ok" \/ ~removeOk)

\* a record is created (createAndStoreHistoryItem) and appended
AppendRecord ==
    /\ clock < MaxAppends
    /\ clock' = clock + 1
    /\ \E q \in 0 .. MAX_HISTORY_ITEMS, qn \in QuotaErrors,
          final \in {"ok"} \cup OtherErrors, removeOk \in BOOLEAN :
          /\ q <= Len(history) + 1
          /\ Heard(Len(newHistoryWith(clock + 1, history)), q, qn, final, removeOk)
          /\ AddToHistory(clock + 1, q, qn, final, removeOk)
    /\ UNCHANGED <<stackVars, stackObs, quotaVars, quotaObs, retryVars, retryObs>>
    /\ UNCHANGED <<pollVars, pollObs>>
    /\ UNCHANGED <<editVars, opObs>>
    /\ UNCHANGED <<chatVars, batchVars, batchObs>>

\* history.filter(item => !idsToDelete.has(item.id))
without(list, ids) == SelectSeq(list, LAMBDA item : item \notin ids)

\* the records as a set
Records(list) == {list[i] : i \in 1 .. Len(list)}

\* the selections of the history panel explored: the newest record, the
\* oldest record, or all of them
Selections(list) == {{list[1]}, {list[Len(list)]}, Records(list)}

\* saveHistory(newHistory), called by deleteHistoryItems and updateHistoryItem
SaveAs(op, newHistory, q, qn, final, removeOk) ==
    LET answers == Answers(q, qn, final)
    IN  /\ history' = savedHistory(history, newHistory, answers)
        /\ lsHistory' = savedStorage(lsHistory, newHistory, answers, removeOk)
        /\ storeThrew' = (storeThrew \/ saveThrows(newHistory, answers))
        /\ lastRejected' = (q > 0)
        /\ lastSave' = saveNote(op, newHistory, q, final, removeOk)
        /\ removals' = removals + 1
        /\ storeFailed' = (storeFailed \/ q > 0 \/ final # "ok" \/ ~removeOk)
        /\ UNCHANGED clock

\* deleteHistoryItems(idsToDelete)
DeleteHistoryItems ==
    /\ removals < MaxRemovals
    /\ clock <= MaxRemovalAt
    /\ history # <<>>
    /\ \E ids \in Selections(history), q \in 0 .. MAX_HISTORY_ITEMS, qn \in QuotaErrors,
          final \in {"ok"} \cup OtherErrors, removeOk \in BOOLEAN :
          /\ Heard(Len(without(history, ids)), q, qn, final, removeOk)
          /\ SaveAs("remove", without(history, ids), q, qn, final, removeOk)
    /\ UNCHANGED storeOthers

\* updateHistoryItem(itemId, updatedImages): the list keeps its records
UpdateHistoryItem ==
    /\ removals < MaxRemovals
    /\ clock <= MaxRemovalAt
    /\ history # <<>>
    /\ \E q \in 0 .. MAX_HISTORY_ITEMS, qn \in QuotaErrors,
          final \in {"ok"} \cup OtherErrors, removeOk \in BOOLEAN :
          /\ Heard(Len(history), q, qn, final, removeOk)
          /\ SaveAs("update", history, q, qn, final, removeOk)
    /\ UNCHANGED storeOthers

\* clearHistory: removeItem inside try / catch, then setHistory([])
ClearHistory ==
    /\ removals < MaxRemovals
    /\ clock <= MaxRemovalAt
    /\ \E removeOk \in BOOLEAN :
          /\ history' = <<>>
          /\ lsHistory' = IF removeOk THEN <<>> ELSE lsHistory
          /\ lastSave' = [op |-> "clear", q |-> 0, final |-> "", removeOk |-> removeOk]
          /\ storeFailed' = (storeFailed \/ ~removeOk)
    /\ removals' = removals + 1
    /\ lastRejected' = FALSE
    /\ UNCHANGED <<clock, storeThrew>>
    /\ UNCHANGED storeOthers

NextStore ==
    \/ AppendRecord
    \/ DeleteHistoryItems
    \/ UpdateHistoryItem
    \/ ClearHistory

SpecStore == Init /\ [][NextStore]_vars

\* what sessionStorage holds under 'userSession' when the page loads: nothing,
\* a member, a guest within the session duration, a guest beyond it, or a
\* string JSON.parse rejects
SessionKinds == {"none", "member", "guest", "expired", "unreadable"}

\* the mount effect of Root reaches localStorage.getItem('generationHistory'):
\* an expired guest returns after handleLogout(), and a JSON.parse error
\* jumps to the catch block
loadsHistory(kind) == kind \notin {"expired", "unreadable"}

\* the list in memory after the mount effect (useState([]) before it)
mountedHistory(kind, stored) == IF loadsHistory(kind) THEN stored ELSE <<>>

mountNote(kind) == [op |-> "mount", q |-> 0, final |-> kind, removeOk |-> TRUE]

\* the page is loaded again: Root mounts and its effect runs once
RootMount(kind) ==
    /\ history' = mountedHistory(kind, lsHistory)
    /\ lastSave' = mountNote(kind)
    /\ UNCHANGED <<lsHistory, clock, storeThrew, lastRejected, removals, storeFailed>>
    /\ UNCHANGED storeOthers

\* an append whose write the storage accepts at once
AppendStored ==
    /\ AppendRecord
    /\ lastSave'.q = 0 /\ lastSave'.final = "ok"

NextReload ==
    \/ AppendStored
    \/ \E kind \in SessionKinds : RootMount(kind)

SpecReload == Init /\ [][NextReload]_vars

-----------------------------------------------------------------------------
(* VoxPage: quota handlers and the metered video operation *)

logged(entry) ==
    LET l == Append(consumeLog, entry)
    IN  IF Len(l) > MaxLog THEN Tail(l) ELSE l

\* the calendar date changes
NextDay ==
    /\ today < MaxDays
    /\ today' = today + 1
    /\ UNCHANGED <<videoQuota, lsQuota, lsQuotaDate, isGeneratingVideo, videoPhase, videoJob, error>>
    /\ UNCHANGED <<stackVars, stackObs, storeVars, storeObs, quotaObs>>
    /\ UNCHANGED <<retryVars, retryObs>>
    /\ UNCHANGED <<pollVars, pollObs>>
    /\ UNCHANGED <<editVars, opObs>>
    /\ UNCHANGED <<chatVars, batchVars, batchObs>>

\* VoxPage is mounted again (reload, or leaving the view and coming back)
\* while no video job is in flight: its state starts over and the quota
\* effect runs
Remount ==
    /\ ~isGeneratingVideo
    /\ ~isLoading
    /\ inputImages' = 0
    /\ isInpaintingMode' = FALSE
    /\ toolPrompt' = EmptyPrompt
    /\ UNCHANGED <<isLoading, opJob, opBefore>>
    /\ videoQuota' = mountedQuota(lsQuota, lsQuotaDate, today)
    /\ lsQuota' = mountedStoredQuota(lsQuota, lsQuotaDate, today)
    /\ lsQuotaDate' = today
    /\ error' = ""
    /\ sessionHistory' = <<>>
    /\ historyIndex' = -1
    /\ currentImage' = NoImage
    /\ prompt' = EmptyPrompt
    /\ dropped' = 0
    /\ undoTrail' = ""
    /\ beforeUndo' = NoUndo
    /\ runPhase' = "push"
    /\ runPushes' = 0
    /\ runUndos' = 0
    /\ lastPush' = NoPush
    /\ consumeLog' = <<>>
    /\ lastRedeem' = NoRedeem
    /\ videoOutcome' = ""
    /\ UNCHANGED <<isGeneratingVideo, videoPhase, videoJob, today, storeVars, storeObs>>
    /\ UNCHANGED <<retryVars, retryObs>>
    /\ UNCHANGED <<pollVars, pollObs>>
    /\ UNCHANGED <<chatVars, batchVars, batchObs>>

\* handleRedeemToken(token); the token dialog is reachable only while no
\* video is being generated
HandleRedeemToken(token) ==
    /\ ~isGeneratingVideo
    /\ redeemedQuota(videoQuota, tokenValue(token)) <= MaxQuota
    /\ IF tokenValue(token) # 0
       THEN /\ videoQuota' = redeemedQuota(videoQuota, tokenValue(token))
            /\ lsQuota' = redeemedQuota(videoQuota, tokenValue(token))
       ELSE UNCHANGED <<videoQuota, lsQuota>>
    /\ lastRedeem' = [before |-> videoQuota, ok |-> tokenValue(token) # 0, token |-> token]
    /\ consumeLog' = <<>>
    /\ videoOutcome' = ""
    /\ UNCHANGED <<lsQuotaDate, isGeneratingVideo, videoPhase, videoJob, error, today>>
    /\ UNCHANGED <<stackVars, stackObs, storeVars, storeObs>>
    /\ UNCHANGED <<retryVars, retryObs>>
    /\ UNCHANGED <<pollVars, pollObs>>
    /\ UNCHANGED <<editVars, opObs>>
    /\ UNCHANGED <<chatVars, batchVars, batchObs>>

\* handleGenerateVideo up to its await: the gate, then the charge; VideoTools
\* offers it only with an image loaded and no video being generated
HandleGenerateVideo ==
    /\ currentImage # NoImage
    /\ ~isGeneratingVideo
    /\ IF quotaExhausted(videoQuota)
       THEN /\ error' = "Daily video quota exceeded. Please add tokens."
            /\ consumeLog' = logged([before |-> videoQuota, ok |-> FALSE,
                                    day |-> today, storedDate |-> lsQuotaDate])
            /\ UNCHANGED <<videoQuota, lsQuota, isGeneratingVideo, videoPhase, videoJob>>
            /\ UNCHANGED opBefore
       ELSE /\ isGeneratingVideo' = TRUE
            /\ opBefore' = Snapshot
            /\ error' = ""
            /\ videoQuota' = chargedQuota(videoQuota)
            /\ lsQuota' = chargedQuota(videoQuota)
            /\ videoPhase' = "started"
            /\ videoJob' = [history |-> history, currentImage |-> currentImage,
                            videoQuota |-> videoQuota]
            /\ consumeLog' = logged([before |-> videoQuota, ok |-> TRUE,
                                    day |-> today, storedDate |-> lsQuotaDate])
    /\ lastRedeem' = NoRedeem
    /\ videoOutcome' = ""
    /\ UNCHANGED editVars
    /\ UNCHANGED <<lsQuotaDate, today, stackVars, stackObs, storeVars, storeObs>>
    /\ UNCHANGED <<retryVars, retryObs>>
    /\ UNCHANGED <<pollVars, pollObs>>
    /\ UNCHANGED <<chatVars, batchVars, batchObs>>

\* generateVideo submits the job (ai.models.generateVideos)
VideoSubmit ==
    /\ videoPhase = "started"
    /\ videoPhase' = "submitted"
    /\ UNCHANGED <<videoQuota, lsQuota, lsQuotaDate, isGeneratingVideo, videoJob, error, today>>
    /\ UNCHANGED <<stackVars, stackObs, storeVars, storeObs, quotaObs>>
    /\ UNCHANGED <<retryVars, retryObs>>
    /\ UNCHANGED <<pollVars, pollObs>>
    /\ UNCHANGED <<editVars, opObs>>
    /\ UNCHANGED <<chatVars, batchVars, batchObs>>

\* generateVideo resolves: the record is stored through the addToHistory the
\* handler closed over; the storage answers as in Answers(q, qn, final)
VideoResolve(q, qn, final, removeOk) ==
    /\ videoPhase = "submitted"
    /\ clock < MaxAppends
    /\ clock' = clock + 1
    /\ LET newHistory == newHistoryWith(clock + 1, videoJob.history)
           answers == Answers(q, qn, final)
       IN  /\ history' = savedHistory(history, newHistory, answers)
           /\ lsHistory' = savedStorage(lsHistory, newHistory, answers, removeOk)
           /\ storeThrew' = (storeThrew \/ saveThrows(newHistory, answers))
           /\ lastRejected' = (q > 0)
           /\ lastSave' = NoSave
           /\ removals' = removals
           /\ storeFailed' = (storeFailed \/ q > 0 \/ final # "ok" \/ ~removeOk)
    /\ isGeneratingVideo' = FALSE
    /\ videoPhase' = "idle"
    /\ videoJob' = NoJob
    /\ videoOutcome' = "resolved"
    /\ opBefore' = NoBefore
    /\ UNCHANGED editVars
    /\ UNCHANGED <<videoQuota, lsQuota, lsQuotaDate, error, today>>
    /\ UNCHANGED <<stackVars, stackObs, consumeLog, lastRedeem>>
    /\ UNCHANGED <<retryVars, retryObs>>
    /\ UNCHANGED <<pollVars, pollObs>>
    /\ UNCHANGED <<chatVars, batchVars, batchObs>>

\* generateVideo rejects, before or after the submission: the job failed or
\* was cancelled by the user
VideoReject(how) ==
    /\ videoPhase \in {"started", "submitted"}
    /\ how = "cancelled" => videoPhase = "submitted"
    /\ error' = how
    /\ videoQuota' = quotaAfterFailure(videoQuota)
    /\ isGeneratingVideo' = FALSE
    /\ videoPhase' = "idle"
    /\ videoJob' = NoJob
    /\ videoOutcome' = how
    /\ opBefore' = NoBefore
    /\ UNCHANGED editVars
    /\ UNCHANGED <<lsQuota, lsQuotaDate, today>>
    /\ UNCHANGED <<stackVars, stackObs, storeVars, storeObs, consumeLog, lastRedeem>>
    /\ UNCHANGED <<retryVars, retryObs>>
    /\ UNCHANGED <<pollVars, pollObs>>
    /\ UNCHANGED <<chatVars, batchVars, batchObs>>

\* the first file of a session is uploaded
UploadFirst ==
    /\ sessionHistory = <<>>
    /\ \E image \in Uploadable : HandleFileUpload(image)

NextQuota ==
    \/ NextDay
    \/ Remount
    \/ \E token \in Tokens : HandleRedeemToken(token)
    \/ HandleGenerateVideo
    \/ VideoSubmit
    \/ VideoResolve(0, "QuotaExceededError", "ok", TRUE)
    \/ \E how \in {"failed", "cancelled"} : VideoReject(how)
    \/ UploadFirst

SpecQuota == Init /\ [][NextQuota]_vars

-----------------------------------------------------------------------------
(* The retrying client.  rcEnv fixes, for one outer call, what the remote  *)
(* service answers to the first and to the second attempt (NoError = it    *)
(* succeeds, a member of Refusals = it returns text and no image, so that  *)
(* the thunk of an image service throws that error inside its try block),  *)
(* whether window.aistudio exists, whether openSelectKey                   *)
(* resolves, and whether initChat() yields a chat.                         *)

\* an outer call begins: the thunk is invoked
RcStart(variant, env) ==
    /\ rcPc \in {"idle", "returned", "threw"}
    /\ variant = "chat" => (env.first \notin Refusals /\ env.second \notin Refusals)
    /\ rcPc' = "calling"
    /\ rcVariant' = variant
    /\ rcAttempt' = 1
    /\ rcEnv' = env
    /\ rcCaught' = NoError
    /\ rcThrown' = NoError
    /\ rcFnCalls' = 1
    /\ rcSelectCalls' = 0
    /\ UNCHANGED <<stackVars, stackObs, storeVars, storeObs, quotaVars, quotaObs>>
    /\ UNCHANGED <<pollVars, pollObs>>
    /\ UNCHANGED <<editVars, opObs>>
    /\ UNCHANGED <<chatVars, batchVars, batchObs>>

RcAnswer == IF rcAttempt = 1 THEN rcEnv.first ELSE rcEnv.second

\* the running attempt resolves
RcAttemptOk ==
    /\ rcPc = "calling"
    /\ RcAnswer = NoError
    /\ rcPc' = "returned"
    /\ UNCHANGED <<rcVariant, rcAttempt, rcEnv, rcCaught, rcThrown, retryObs>>
    /\ UNCHANGED <<stackVars, stackObs, storeVars, storeObs, quotaVars, quotaObs>>
    /\ UNCHANGED <<pollVars, pollObs>>
    /\ UNCHANGED <<editVars, opObs>>
    /\ UNCHANGED <<chatVars, batchVars, batchObs>>

\* the running attempt rejects: the catch block
RcAttemptFail ==
    /\ rcPc = "calling"
    /\ RcAnswer # NoError
    /\ LET e == thrownBy(rcVariant, RcAnswer)
       IN  IF mayReauth(rcAttempt) /\ reauthEligible(rcVariant, e) /\ rcEnv.aistudio
           THEN /\ rcPc' = "selecting"
                /\ rcCaught' = e
                /\ rcSelectCalls' = rcSelectCalls + 1
                /\ UNCHANGED rcThrown
           ELSE /\ rcPc' = "threw"
                /\ rcThrown' = IF rcAttempt = 1 THEN e ELSE rethrown(rcCaught, e)
                /\ UNCHANGED <<rcCaught, rcSelectCalls>>
    /\ UNCHANGED <<rcVariant, rcAttempt, rcEnv, rcFnCalls>>
    /\ UNCHANGED <<stackVars, stackObs, storeVars, storeObs, quotaVars, quotaObs>>
    /\ UNCHANGED <<pollVars, pollObs>>
    /\ UNCHANGED <<editVars, opObs>>
    /\ UNCHANGED <<chatVars, batchVars, batchObs>>

\* openSelectKey resolves: the thunk is invoked again (the chat first builds
\* a new chat, and without one the retry throws before sending)
RcSelectOk ==
    /\ rcPc = "selecting"
    /\ rcEnv.selectOk
    /\ IF rcVariant = "chat" /\ ~rcEnv.chatInit
       THEN /\ rcPc' = "threw"
            /\ rcThrown' = rethrown(rcCaught, ChatNotInitialized)
            /\ UNCHANGED <<rcAttempt, rcFnCalls>>
       ELSE /\ rcPc' = "calling"
            /\ rcAttempt' = rcAttempt + 1
            /\ rcFnCalls' = rcFnCalls + 1
            /\ UNCHANGED rcThrown
    /\ UNCHANGED <<rcVariant, rcEnv, rcCaught, rcSelectCalls>>
    /\ UNCHANGED <<stackVars, stackObs, storeVars, storeObs, quotaVars, quotaObs>>
    /\ UNCHANGED <<pollVars, pollObs>>
    /\ UNCHANGED <<editVars, opObs>>
    /\ UNCHANGED <<chatVars, batchVars, batchObs>>

\* openSelectKey rejects: the original error is thrown
RcSelectFail ==
    /\ rcPc = "selecting"
    /\ ~rcEnv.selectOk
    /\ rcPc' = "threw"
    /\ rcThrown' = rethrown(rcCaught, SelectRejection)
    /\ UNCHANGED <<rcVariant, rcAttempt, rcEnv, rcCaught, retryObs>>
    /\ UNCHANGED <<stackVars, stackObs, storeVars, storeObs, quotaVars, quotaObs>>
    /\ UNCHANGED <<pollVars, pollObs>>
    /\ UNCHANGED <<editVars, opObs>>
    /\ UNCHANGED <<chatVars, batchVars, batchObs>>

NextRetry ==
    \/ \E variant \in {"service", "chat"}, env \in Envs : RcStart(variant, env)
    \/ RcAttemptOk
    \/ RcAttemptFail
    \/ RcSelectOk
    \/ RcSelectFail

SpecRetry == Init /\ [][NextRetry]_vars

-----------------------------------------------------------------------------
(* generateVideo: the video job poller.  Its whole body (submission, poll  *)
(* loop, download) is the thunk handed to executeWithApiKeyHandling, and   *)
(* its catch block rethrows new Error(parseGeminiError(error)).            *)

CancelError == NewError(<<"Video", "generation", "cancelled", "by", "user", ".">>)
NoLinkError == NewError(<<"Video", "generation", "completed", ",", "but", "no", "download",
                          "link", "was", "found", ".">>)
DownloadError == NewError(<<"Failed", "to", "download", "video", "file", ".", "Status", ":",
                            "Forbidden">>)

\* what a request of the poller is rejected with
PollerErrors == {
    ErrorValue(TRUE, <<"NOT_FOUND">>, 404, 0, NoInner),
    ErrorValue(TRUE, <<"Failed", "to", "fetch">>, 0, 0, NoInner) }

\* what the download fails with: fetch rejects, or videoResponse.ok is false
FetchErrors == {
    ErrorValue(TRUE, <<"Failed", "to", "fetch">>, 0, 0, NoInner),
    DownloadError }

gvOthers == <<stackVars, stackObs, storeVars, storeObs, quotaVars, quotaObs, retryVars, retryObs,
              editVars, opObs, chatVars, batchVars, batchObs>>

\* one more request goes out: does it go out after the flag was set
afterCancelCount == IF gvCancelled THEN gvAfterCancel + 1 ELSE gvAfterCancel

\* the thunk throws e0: its catch block wraps it, and the catch block of
\* executeWithApiKeyHandling decides between reselection and rejection
GvThrow(e0) ==
    LET e == thrownBy("service", e0)
    IN  IF mayReauth(gvAttempt) /\ reauthEligible("service", e) /\ gvAistudio
        THEN /\ gvPc' = "selecting"
             /\ gvCaught' = e
             /\ UNCHANGED gvRejection
        ELSE /\ gvPc' = "rejected"
             /\ gvRejection' = IF gvAttempt = 1 THEN e ELSE gvCaught
             /\ UNCHANGED gvCaught

\* (mutant) the download is requested without looking at operation.done
GvLoopHeadFetchEarly(done, link) ==
    /\ gvDone' = done
    /\ gvFirstTick' = IF gvFirstTick # "none" THEN gvFirstTick
                      ELSE IF gvCancelled THEN "cancelled" ELSE "clear"
    /\ IF gvCancelled
       THEN GvThrow(CancelError) /\ UNCHANGED gvFetches
       ELSE IF ~link
       THEN GvThrow(NoLinkError) /\ UNCHANGED gvFetches
       ELSE /\ gvPc' = "fetching"
            /\ gvFetches' = gvFetches + 1
            /\ UNCHANGED <<gvCaught, gvRejection>>

\* while (!operation.done) { if (cancelled) throw ...; wait } and, after the
\* loop, if (cancelled) throw ...; the download link; fetch
GvLoopHead(done, link) ==
    /\ gvDone' = done
    /\ gvFirstTick' = IF gvFirstTick # "none" THEN gvFirstTick
                      ELSE IF gvCancelled THEN "cancelled" ELSE "clear"
    /\ IF gvCancelled
       THEN GvThrow(CancelError) /\ UNCHANGED gvFetches
       ELSE IF ~done
       THEN gvPc' = "waiting" /\ UNCHANGED <<gvCaught, gvRejection, gvFetches>>
       ELSE IF ~link
       THEN GvThrow(NoLinkError) /\ UNCHANGED gvFetches
       ELSE /\ gvPc' = "fetching"
            /\ gvFetches' = gvFetches + 1
            /\ UNCHANGED <<gvCaught, gvRejection>>

\* generateVideo is called with a fresh flag: the job is submitted
GvStart(aistudio) ==
    /\ gvPc \in {"idle", "resolved", "rejected"}
    /\ gvPc' = "submitting"
    /\ gvAttempt' = 1
    /\ gvCancelled' = FALSE
    /\ gvAistudio' = aistudio
    /\ gvCaught' = NoError
    /\ gvRejection' = NoError
    /\ gvSubmits' = 1
    /\ gvPolls' = 0
    /\ gvFetches' = 0
    /\ gvCancelAt' = ""
    /\ gvAfterCancel' = 0
    /\ gvFirstTick' = "none"
    /\ gvResubmits' = 0
    /\ gvDone' = FALSE
    /\ UNCHANGED gvOthers

\* the caller sets the shared flag
GvCancel ==
    /\ gvPc \in {"submitting", "waiting", "polling", "fetching", "selecting"}
    /\ ~gvCancelled
    /\ gvCancelled' = TRUE
    /\ gvCancelAt' = IF gvFirstTick = "none" THEN "before first tick"
                     ELSE IF gvPc \in {"waiting", "polling"} THEN "polling"
                     ELSE gvPc
    /\ UNCHANGED <<gvPc, gvAttempt, gvAistudio, gvCaught, gvRejection>>
    /\ UNCHANGED <<gvSubmits, gvPolls, gvFetches, gvAfterCancel, gvFirstTick, gvResubmits, gvDone>>
    /\ UNCHANGED gvOthers

\* generateVideos resolves with an operation
GvSubmitOk(done, link) ==
    /\ gvPc = "submitting"
    /\ GvLoopHead(done, link)
    /\ UNCHANGED <<gvAttempt, gvCancelled, gvAistudio>>
    /\ UNCHANGED <<gvSubmits, gvPolls, gvCancelAt, gvAfterCancel, gvResubmits>>
    /\ UNCHANGED gvOthers

\* generateVideos rejects
GvSubmitFail(raw) ==
    /\ gvPc = "submitting"
    /\ GvThrow(raw)
    /\ UNCHANGED <<gvAttempt, gvCancelled, gvAistudio>>
    /\ UNCHANGED pollObs
    /\ UNCHANGED gvOthers

\* the 20 s wait ends: getVideosOperation is requested
GvTimer ==
    /\ gvPc = "waiting"
    /\ gvPolls < MaxPolls
    /\ gvPc' = "polling"
    /\ gvPolls' = gvPolls + 1
    /\ gvAfterCancel' = afterCancelCount
    /\ UNCHANGED <<gvAttempt, gvCancelled, gvAistudio, gvCaught, gvRejection>>
    /\ UNCHANGED <<gvSubmits, gvFetches, gvCancelAt, gvFirstTick, gvResubmits, gvDone>>
    /\ UNCHANGED gvOthers

\* getVideosOperation resolves
GvPollOk(done, link) ==
    /\ gvPc = "polling"
    /\ GvLoopHead(done, link)
    /\ UNCHANGED <<gvAttempt, gvCancelled, gvAistudio>>
    /\ UNCHANGED <<gvSubmits, gvPolls, gvCancelAt, gvAfterCancel, gvResubmits>>
    /\ UNCHANGED gvOthers

\* getVideosOperation rejects
GvPollFail(raw) ==
    /\ gvPc = "polling"
    /\ GvThrow(raw)
    /\ UNCHANGED <<gvAttempt, gvCancelled, gvAistudio>>
    /\ UNCHANGED pollObs
    /\ UNCHANGED gvOthers

\* the download answers: ok, not ok (videoResponse.ok is false) or a rejection
GvFetchOk ==
    /\ gvPc = "fetching"
    /\ gvPc' = "resolved"
    /\ UNCHANGED <<gvAttempt, gvCancelled, gvAistudio, gvCaught, gvRejection>>
    /\ UNCHANGED pollObs
    /\ UNCHANGED gvOthers

GvFetchFail(e0) ==
    /\ gvPc = "fetching"
    /\ GvThrow(e0)
    /\ UNCHANGED <<gvAttempt, gvCancelled, gvAistudio>>
    /\ UNCHANGED pollObs
    /\ UNCHANGED gvOthers

\* openSelectKey resolves: the thunk runs again from its first line
GvSelectOk ==
    /\ gvPc = "selecting"
    /\ gvPc' = "submitting"
    /\ gvAttempt' = gvAttempt + 1
    /\ gvSubmits' = gvSubmits + 1
    /\ gvAfterCancel' = afterCancelCount
    /\ gvResubmits' = IF gvFirstTick # "none" THEN gvResubmits + 1 ELSE gvResubmits
    /\ gvDone' = FALSE
    /\ UNCHANGED <<gvCancelled, gvAistudio, gvCaught, gvRejection>>
    /\ UNCHANGED <<gvPolls, gvFetches, gvCancelAt, gvFirstTick>>
    /\ UNCHANGED gvOthers

\* openSelectKey rejects: the first error is thrown
GvSelectFail ==
    /\ gvPc = "selecting"
    /\ gvPc' = "rejected"
    /\ gvRejection' = gvCaught
    /\ UNCHANGED <<gvAttempt, gvCancelled, gvAistudio, gvCaught>>
    /\ UNCHANGED pollObs
    /\ UNCHANGED gvOthers

NextPoller ==
    \/ \E aistudio \in BOOLEAN : GvStart(aistudio)
    \/ GvCancel
    \/ \E done \in BOOLEAN, link \in BOOLEAN : GvSubmitOk(done, link)
    \/ \E raw \in PollerErrors : GvSubmitFail(raw)
    \/ GvTimer
    \/ \E done \in BOOLEAN, link \in BOOLEAN : GvPollOk(done, link)
    \/ \E raw \in PollerErrors : GvPollFail(raw)
    \/ GvFetchOk
    \/ \E e0 \in FetchErrors : GvFetchFail(e0)
    \/ GvSelectOk
    \/ GvSelectFail

SpecPoller == Init /\ [][NextPoller]_vars

\* what operation.done may be in an answer when the job reports done within
\* MaxPolls polls unless the flag has been set
JobAnswers == IF gvPolls < MaxPolls \/ gvCancelled THEN BOOLEAN ELSE {TRUE}

\* the steps that do not wait for the user: a request returns, the 20 s
\* timer fires, the key selection settles
GvProgress ==
    \/ \E done \in JobAnswers, link \in BOOLEAN : GvSubmitOk(done, link)
    \/ \E raw \in PollerErrors : GvSubmitFail(raw)
    \/ GvTimer
    \/ \E done \in JobAnswers, link \in BOOLEAN : GvPollOk(done, link)
    \/ \E raw \in PollerErrors : GvPollFail(raw)
    \/ GvFetchOk
    \/ \E e0 \in FetchErrors : GvFetchFail(e0)
    \/ GvSelectOk
    \/ GvSelectFail

NextPollerFair ==
    \/ \E aistudio \in BOOLEAN : GvStart(aistudio)
    \/ GvCancel
    \/ \E done \in JobAnswers, link \in BOOLEAN : GvSubmitOk(done, link)
    \/ \E raw \in PollerErrors : GvSubmitFail(raw)
    \/ GvTimer
    \/ \E done \in JobAnswers, link \in BOOLEAN : GvPollOk(done, link)
    \/ \E raw \in PollerErrors : GvPollFail(raw)
    \/ GvFetchOk
    \/ \E e0 \in FetchErrors : GvFetchFail(e0)
    \/ GvSelectOk
    \/ GvSelectFail

\* every awaited promise settles and every timer fires
SpecPollerFair == Init /\ [][NextPollerFair]_vars /\ WF_vars(GvProgress)

-----------------------------------------------------------------------------
(* COSPage: the batch of COS_TOTAL variations.  handleGenerate runs its    *)
(* loop across awaits; a call that was cancelled keeps running until its   *)
(* awaited request settles, and the ref it reads is the one ref of the     *)
(* page, which the next handleGenerate sets back to false.                 *)

batchOthers == <<stackVars, stackObs, storeVars, storeObs, quotaVars, quotaObs, retryVars, retryObs,
                 pollVars, pollObs, editVars, opObs, chatVars>>

CosLoop(id, i, cancelled) == [id |-> id, i |-> i, cancelled |-> cancelled]

\* the loops other than the k-th
otherLoops(k) == [j \in 1 .. Len(cosLoops) - 1 |-> IF j < k THEN cosLoops[j] ELSE cosLoops[j + 1]]

\* handleGenerate up to its first await: the state is reset, the ref is set
\* to false, the loop head finds it false and the first request goes out
CosHandleGenerate ==
    /\ ~cosGenerating
    /\ cosBatches < MaxBatches
    /\ cosGenerating' = TRUE
    /\ cosImages' = NoImages
    /\ cosError' = ""
    /\ cosCancelledRef' = FALSE
    /\ cosLoops' = Append(cosLoops, CosLoop(cosBatches + 1, 1, FALSE))
    /\ cosBatches' = cosBatches + 1
    /\ UNCHANGED <<cosLateCall, cosLatePublish>>
    /\ UNCHANGED batchOthers

\* handleCancel (the Cancel button or Escape, both only while isGenerating)
CosHandleCancel ==
    /\ cosGenerating
    /\ cosCancelledRef' = TRUE
    /\ cosGenerating' = FALSE
    /\ cosLoops' = [j \in 1 .. Len(cosLoops) |-> CosLoop(cosLoops[j].id, cosLoops[j].i, TRUE)]
    /\ UNCHANGED <<cosImages, cosError, batchObs>>
    /\ UNCHANGED batchOthers

\* the loop of a call goes on after a result: i <= 20 and the ref is false
loopGoesOn(i, cancelledRef) == i + 1 <= COS_TOTAL /\ ~cancelledRef

\* the awaited editImageFromPrompt of the k-th call resolves: the result is
\* pushed and published, then the loop head runs for the next i
CosResolve(k) ==
    LET loop == cosLoops[k]
    IN  /\ cosImages' = [batch |-> loop.id, count |-> loop.i]
        /\ cosLatePublish' = (cosLatePublish \/ loop.cancelled)
        /\ IF loopGoesOn(loop.i, cosCancelledRef)
           THEN /\ cosLoops' = [cosLoops EXCEPT ![k] = CosLoop(loop.id, loop.i + 1, loop.cancelled)]
                /\ cosLateCall' = (cosLateCall \/ loop.cancelled)
                /\ UNCHANGED cosGenerating
           ELSE /\ cosLoops' = otherLoops(k)
                /\ cosGenerating' = FALSE
                /\ UNCHANGED cosLateCall
        /\ UNCHANGED <<cosCancelledRef, cosError, cosBatches>>
        /\ UNCHANGED batchOthers

\* the awaited request of the k-th call rejects: catch and finally
CosReject(k) ==
    /\ cosError' = IF cosCancelledRef THEN cosError ELSE "failed"
    /\ cosLoops' = otherLoops(k)
    /\ cosGenerating' = FALSE
    /\ UNCHANGED <<cosCancelledRef, cosImages, batchObs>>
    /\ UNCHANGED batchOthers

NextBatch ==
    \/ CosHandleGenerate
    \/ CosHandleCancel
    \/ \E k \in 1 .. Len(cosLoops) : CosResolve(k)
    \/ \E k \in 1 .. Len(cosLoops) : CosReject(k)

SpecBatch == Init /\ [][NextBatch]_vars

-----------------------------------------------------------------------------
(* VoxPage: the image operations.  A handler runs up to its awaited remote *)
(* call when it is invoked and finishes when the call resolves or rejects. *)

Closure(kind) == [kind |-> kind, sessionHistory |-> sessionHistory,
                  historyIndex |-> historyIndex, history |-> history,
                  prompt |-> prompt, toolPrompt |-> toolPrompt,
                  currentImage |-> currentImage, inputImages |-> inputImages,
                  isInpaintingMode |-> isInpaintingMode]

opOthers == <<storeVars, storeObs, quotaObs, retryVars, retryObs, pollVars, pollObs>>
quotaKept == <<videoQuota, lsQuota, lsQuotaDate, isGeneratingVideo, videoPhase, videoJob, today>>

\* handleFileUpload, tray flow: the files are added to the tray (at most
\* MAX_TRAY stay) and the first of them is shown; nothing is pushed
StageFiles(n) ==
    /\ ~(n = 1 /\ inputImages = 0)
    /\ inputImages < MaxStaged
    /\ inputImages' = IF inputImages + n > MAX_TRAY THEN MAX_TRAY ELSE inputImages + n
    /\ currentImage' = 2 * Depth + 1
    /\ lastPush' = NoPush
    /\ undoTrail' = ""
    /\ beforeUndo' = NoUndo
    /\ UNCHANGED <<sessionHistory, historyIndex, prompt, dropped, runPhase, runPushes, runUndos>>
    /\ UNCHANGED <<isInpaintingMode, toolPrompt, isLoading, opJob, opObs>>
    /\ UNCHANGED <<quotaVars, opOthers>>
    /\ UNCHANGED <<chatVars, batchVars, batchObs>>

\* handleRemoveFromTray
RemoveFromTray ==
    /\ inputImages > 0
    /\ inputImages' = inputImages - 1
    /\ UNCHANGED <<isInpaintingMode, toolPrompt, isLoading, opJob, opObs>>
    /\ UNCHANGED <<stackVars, stackObs, quotaVars, opOthers>>
    /\ UNCHANGED <<chatVars, batchVars, batchObs>>

\* the mask button, shown while an artifact is loaded
ToggleInpaint ==
    /\ currentImage # NoImage
    /\ isInpaintingMode' = ~isInpaintingMode
    /\ UNCHANGED <<inputImages, toolPrompt, isLoading, opJob, opObs>>
    /\ UNCHANGED <<stackVars, stackObs, quotaVars, opOthers>>
    /\ UNCHANGED <<chatVars, batchVars, batchObs>>

\* the user edits the prompt box of the tools panel
SetToolPrompt(p) ==
    /\ p # toolPrompt
    /\ toolPrompt' = p
    /\ UNCHANGED <<inputImages, isInpaintingMode, isLoading, opJob, opObs>>
    /\ UNCHANGED <<stackVars, stackObs, quotaVars, opOthers>>
    /\ UNCHANGED <<chatVars, batchVars, batchObs>>

\* a handler passes its guards and awaits its remote call
OpBegin(kind) ==
    /\ ~isLoading
    /\ clock + Len(consumeLog) < MaxOps
    /\ isLoading' = TRUE
    /\ error' = ""
    /\ opJob' = Closure(kind)
    /\ opBefore' = Snapshot
    /\ UNCHANGED <<inputImages, isInpaintingMode, toolPrompt>>
    /\ UNCHANGED <<stackVars, stackObs, quotaKept, opOthers>>
    /\ UNCHANGED <<chatVars, batchVars, batchObs>>

\* handleGenerate (the button is disabled while loading or generating a video)
HandleGenerate ==
    /\ ~isGeneratingVideo
    /\ prompt # EmptyPrompt
    /\ OpBegin(voxRoute(inputImages, isInpaintingMode, currentImage))

\* handleUpscale
HandleUpscale ==
    /\ currentImage # NoImage
    /\ OpBegin("upscale")

\* handleRefine
HandleRefine ==
    /\ currentImage # NoImage
    /\ toolPrompt # EmptyPrompt
    /\ OpBegin("refine")

\* handleReframe
HandleReframe ==
    /\ currentImage # NoImage
    /\ OpBegin("reframe")

\* the prompt the handler pushes with the new artifact
pushedPrompt(job) == IF job.kind \in {"refine", "reframe"} THEN job.toolPrompt ELSE job.prompt

\* the awaited call resolves with a new artifact: the rest of the try block
OpResolve ==
    /\ isLoading
    /\ LET image == 2 * Depth + 1
           sh == opJob.sessionHistory
           hi == opJob.historyIndex
           newHistory == newHistoryWith(clock + 1, opJob.history)
           answers == Answers(0, "QuotaExceededError", "ok")
       IN  /\ pushShifts(sh, hi) => dropped < MaxDropped
           /\ currentImage' = image
           /\ sessionHistory' = settledHistory(TRUE, sessionHistory, sh, hi, image, pushedPrompt(opJob))
           /\ historyIndex' = pushedIndex(sh, hi, historyIndex)
           /\ dropped' = IF pushShifts(sh, hi) THEN dropped + 1 ELSE dropped
           /\ lastPush' = [hist |-> sh, idx |-> hi]
           /\ history' = savedHistory(history, newHistory, answers)
           /\ lsHistory' = savedStorage(lsHistory, newHistory, answers, TRUE)
           /\ storeThrew' = (storeThrew \/ saveThrows(newHistory, answers))
    /\ clock' = clock + 1
    /\ lastRejected' = FALSE
    /\ lastSave' = NoSave
    /\ removals' = removals
    /\ storeFailed' = storeFailed
    /\ undoTrail' = ""
    /\ beforeUndo' = NoUndo
    /\ runPhase' = IF runPhase = "push" THEN "push" ELSE "off"
    /\ runPushes' = IF runPhase = "push" THEN runPushes + 1 ELSE 0
    /\ runUndos' = 0
    /\ prompt' = IF opJob.kind \in GenerateKinds THEN EmptyPrompt ELSE prompt
    /\ toolPrompt' = IF opJob.kind \in {"refine", "reframe"} THEN EmptyPrompt ELSE toolPrompt
    /\ inputImages' = IF opJob.kind = "combine" THEN 0 ELSE inputImages
    /\ isInpaintingMode' = IF opJob.kind = "inpaint" THEN FALSE ELSE isInpaintingMode
    /\ isLoading' = FALSE
    /\ opJob' = NoOpJob
    /\ opBefore' = NoBefore
    /\ UNCHANGED <<quotaVars, quotaObs, retryVars, retryObs, pollVars, pollObs>>
    /\ UNCHANGED <<chatVars, batchVars, batchObs>>

\* the awaited call rejects: the catch block
OpReject ==
    /\ isLoading
    /\ sessionHistory' = settledHistory(FALSE, sessionHistory, opJob.sessionHistory,
                                        opJob.historyIndex, 2 * Depth + 1, pushedPrompt(opJob))
    /\ error' = "Generation failed"
    /\ isLoading' = FALSE
    /\ opJob' = NoOpJob
    /\ opBefore' = NoBefore
    /\ UNCHANGED <<historyIndex, currentImage, prompt, stackObs>>
    /\ UNCHANGED <<inputImages, isInpaintingMode, toolPrompt>>
    /\ UNCHANGED <<quotaKept, opOthers>>
    /\ UNCHANGED <<chatVars, batchVars, batchObs>>

\* no handler is awaiting a remote call (operations on one document are
\* issued one at a time)
Settled == ~isLoading /\ ~isGeneratingVideo

NextOps ==
    \/ Settled /\ \E p \in OpPrompts : SetPrompt(p)
    \/ Settled /\ \E p \in Prompts : SetToolPrompt(p)
    \/ Settled /\ UploadFirst
    \/ Settled /\ \E n \in {1, 2} : StageFiles(n)
    \/ Settled /\ RemoveFromTray
    \/ Settled /\ ToggleInpaint
    \/ Settled /\ HandleUndo
    \/ Settled /\ HandleGenerate
    \/ Settled /\ HandleUpscale
    \/ Settled /\ HandleRefine
    \/ Settled /\ HandleReframe
    \/ OpResolve
    \/ OpReject
    \/ Settled /\ clock + Len(consumeLog) < MaxOps /\ HandleGenerateVideo
    \/ VideoSubmit
    \/ VideoResolve(0, "QuotaExceededError", "ok", TRUE)
    \/ \E how \in {"failed", "cancelled"} : VideoReject(how)

SpecOps == Init /\ [][NextOps]_vars

\* the Undo and Redo buttons are disabled by the cursor position only, not
\* by isLoading: they can be pressed while an operation is awaited
NextFlight ==
    \/ Settled /\ Depth < MaxFreeDepth /\ \E image \in Uploadable : HandleFileUpload(image)
    \/ HandleUndo
    \/ HandleRedo
    \/ Settled /\ HandleUpscale
    \/ OpResolve
    \/ OpReject

SpecFlight == Init /\ [][NextFlight]_vars

\* the tool buttons are disabled by isLoading only and the video tools by
\* isGeneratingVideo only: an image tool and the animation can be awaited
\* at the same time, started in either order
NextOverlap ==
    \/ Settled /\ UploadFirst
    \/ Settled /\ \E p \in Prompts : SetToolPrompt(p)
    \/ HandleUpscale
    \/ HandleReframe
    \/ OpResolve
    \/ OpReject
    \/ clock + Len(consumeLog) < MaxOps /\ HandleGenerateVideo
    \/ VideoSubmit
    \/ VideoResolve(0, "QuotaExceededError", "ok", TRUE)
    \/ \E how \in {"failed", "cancelled"} : VideoReject(how)

SpecOverlap == Init /\ [][NextOverlap]_vars

-----------------------------------------------------------------------------
(* Header: the chat panel *)

chatOthers == <<stackVars, stackObs, storeVars, storeObs, quotaVars, quotaObs, retryVars, retryObs,
                pollVars, pollObs, editVars, opObs, batchVars, batchObs>>

\* the user types
SetUserInput(p) ==
    /\ p # userInput
    /\ userInput' = p
    /\ UNCHANGED <<uploadedImages, vxogMode, chatLoading, chatJob, messages, imageHistory>>
    /\ UNCHANGED chatOthers

\* handleFileSelect: every file picked is attached
HandleFileSelect(n) ==
    /\ uploadedImages + n <= MaxAttached
    /\ uploadedImages' = uploadedImages + n
    /\ UNCHANGED <<userInput, vxogMode, chatLoading, chatJob, messages, imageHistory>>
    /\ UNCHANGED chatOthers

\* the remove button of an attached image
RemoveAttached ==
    /\ uploadedImages > 0
    /\ uploadedImages' = uploadedImages - 1
    /\ UNCHANGED <<userInput, vxogMode, chatLoading, chatJob, messages, imageHistory>>
    /\ UNCHANGED chatOthers

\* the persona buttons
SetVxogMode(mode) ==
    /\ mode # vxogMode
    /\ vxogMode' = mode
    /\ UNCHANGED <<userInput, uploadedImages, chatLoading, chatJob, messages, imageHistory>>
    /\ UNCHANGED chatOthers

\* handleSendMessage up to its first awaited call
HandleSendMessage ==
    /\ ~chatLoading
    /\ messages + 2 <= MaxMessages
    /\ ~(userInput = EmptyPrompt /\ uploadedImages = 0)
    /\ chatJob' = [kind |-> chatRoute(uploadedImages, userInput, vxogMode),
                   input |-> userInput, images |-> uploadedImages, mode |-> vxogMode]
    /\ userInput' = EmptyPrompt
    /\ uploadedImages' = 0
    /\ messages' = messages + 1
    /\ chatLoading' = TRUE
    /\ UNCHANGED <<vxogMode, imageHistory>>
    /\ UNCHANGED chatOthers

\* the awaited call resolves: combine and edit answer with an image, the
\* chat with text
ChatResolve ==
    /\ chatLoading
    /\ messages' = messages + 1
    /\ imageHistory' = IF chatJob.kind \in {"combine", "edit"} THEN imageHistory + 1 ELSE imageHistory
    /\ chatLoading' = FALSE
    /\ chatJob' = NoChatJob
    /\ UNCHANGED <<userInput, uploadedImages, vxogMode>>
    /\ UNCHANGED chatOthers

\* the awaited call rejects: a failed edit falls through to the chat flow,
\* the others answer with an error message
ChatReject ==
    /\ chatLoading
    /\ IF chatJob.kind = "edit"
       THEN /\ chatJob' = [chatJob EXCEPT !.kind = "chat"]
            /\ UNCHANGED <<chatLoading, messages>>
       ELSE /\ chatJob' = NoChatJob
            /\ chatLoading' = FALSE
            /\ messages' = messages + 1
    /\ UNCHANGED <<userInput, uploadedImages, vxogMode, imageHistory>>
    /\ UNCHANGED chatOthers

NextChat ==
    \/ \E p \in Instructions : SetUserInput(p)
    \/ \E n \in {1, 2} : HandleFileSelect(n)
    \/ RemoveAttached
    \/ \E mode \in VxogModes : SetVxogMode(mode)
    \/ HandleSendMessage
    \/ ChatResolve
    \/ ChatReject

SpecChat == Init /\ [][NextChat]_vars

-----------------------------------------------------------------------------
(* The two routers side by side.  A run works in one panel: the studio is *)
(* used while the chat is as it was opened, and the other way round.      *)

VoxUntouched ==
    /\ sessionHistory = <<>>
    /\ currentImage = NoImage
    /\ prompt = EmptyPrompt
    /\ inputImages = 0
    /\ ~isLoading
    /\ clock = 0

ChatUntouched ==
    /\ userInput = EmptyPrompt
    /\ uploadedImages = 0
    /\ vxogMode = "VXOG"
    /\ ~chatLoading
    /\ messages = 1

NextRouter ==
    \/ ChatUntouched /\ ~isLoading /\ \E p \in OpPrompts : SetPrompt(p)
    \/ ChatUntouched /\ ~isLoading /\ UploadFirst
    \/ ChatUntouched /\ ~isLoading /\ \E n \in {1, 2} : StageFiles(n)
    \/ ChatUntouched /\ ~isLoading /\ RemoveFromTray
    \/ ChatUntouched /\ ~isLoading /\ ToggleInpaint
    \/ ChatUntouched /\ ~isLoading /\ HandleUndo
    \/ ChatUntouched /\ HandleGenerate
    \/ OpResolve
    \/ OpReject
    \/ VoxUntouched /\ NextChat

SpecRouter == Init /\ [][NextRouter]_vars

NextStack ==
    \/ \E p \in Prompts : SetPrompt(p)
    \/ \E image \in Uploadable : HandleFileUpload(image)
    \/ HandleUndo
    \/ HandleRedo

SpecStack == Init /\ [][NextStack]_vars

-----------------------------------------------------------------------------
(* Claims about the timeline, checked under SpecStack *)

Min(a, b) == IF a < b THEN a ELSE b

\* the artifact numbers a snapshot at absolute position d can carry
ArtifactsAt(d) == {2 * d + 1, 2 * d + 2}

\* C4: after every sequence of push, undo and redo the timeline holds at most
\* MAX_SESSION_HISTORY snapshots, the cursor stays within it, and what a push
\* beyond the capacity drops is the oldest snapshot: the snapshots kept are
\* those of the positions dropped .. dropped + length - 1, in order.
C4_StackBounded ==
    /\ Len(sessionHistory) <= MAX_SESSION_HISTORY
    /\ historyIndex \in -1 .. Len(sessionHistory) - 1
    /\ \A j \in 1 .. Len(sessionHistory) :
          sessionHistory[j].image \in ArtifactsAt(dropped + j - 1)

C4_Witness ==
    /\ dropped = MaxDropped
    /\ Len(sessionHistory) = MAX_SESSION_HISTORY
    /\ lastPush # NoPush

\* C5: undo followed by redo, with no push in between, leaves the timeline as it was, puts the
\* cursor back on the index it had before the undo, and shows the artifact
\* and the instruction of the snapshot at that index.
C5_UndoRedoRoundTrip ==
    undoTrail = "undo-redo" =>
        /\ sessionHistory = beforeUndo.hist
        /\ historyIndex = beforeUndo.idx
        /\ currentImage = beforeUndo.hist[beforeUndo.idx + 1].image
        /\ prompt = beforeUndo.hist[beforeUndo.idx + 1].prompt

C5_Witness ==
    /\ undoTrail = "undo-redo"
    /\ historyIndex >= 1
    /\ historyIndex < Len(sessionHistory) - 1
    /\ prompt = "a"

\* C6 as stated: after k pushes onto the empty timeline, back-to-back undos
\* first reach the empty document after exactly min(k, N_undo) + 1 undos.
C6_AsStated ==
    (runPhase = "undo" /\ historyIndex = -1) =>
        runUndos = Min(runPushes, MAX_SESSION_HISTORY) + 1

\* C6 amended: after k pushes onto the empty timeline, u back-to-back undos
\* leave the cursor at min(k, N_undo) - 1 - u, so the empty document is
\* reached after exactly min(k, N_undo) undos.
C6_UndoRunLength ==
    /\ runPhase = "push" => historyIndex = Min(runPushes, MAX_SESSION_HISTORY) - 1
    /\ runPhase = "undo" =>
          /\ historyIndex = Min(runPushes, MAX_SESSION_HISTORY) - 1 - runUndos
          /\ (historyIndex = -1) <=> (runUndos = Min(runPushes, MAX_SESSION_HISTORY))

C6_Witness ==
    /\ runPhase = "undo"
    /\ runPushes > MAX_SESSION_HISTORY
    /\ historyIndex = -1

\* C7: a push issued with the cursor at index i keeps the snapshots up to i
\* (less the oldest one when the capacity is exceeded), discards those after
\* i, appends the new snapshot, and leaves the cursor on the last entry, where
\* redo has nothing to do.
C7_PushTruncates ==
    lastPush # NoPush =>
        LET i == lastPush.idx
            kept == SubSeq(lastPush.hist, 1, i + 1)
            n == Len(sessionHistory)
        IN  /\ n = Min(i + 2, MAX_SESSION_HISTORY)
            /\ historyIndex = n - 1
            /\ ~redoEnabled(sessionHistory, historyIndex)
            /\ sessionHistory[n] = SessionState(currentImage, prompt)
            /\ SubSeq(sessionHistory, 1, n - 1) =
                  IF i + 2 > MAX_SESSION_HISTORY THEN Tail(kept) ELSE kept

C7_Witness ==
    /\ lastPush # NoPush
    /\ lastPush.idx >= 1
    /\ lastPush.idx < Len(lastPush.hist) - 2

-----------------------------------------------------------------------------
(* Claims about the activity log, checked under SpecStore *)

\* C3: whatever the storage answers, capacity rejections included, no append
\* throws to its caller and the list holds at most MAX_HISTORY_ITEMS records.
C3_AppendSafe ==
    /\ ~storeThrew
    /\ Len(history) <= MAX_HISTORY_ITEMS
    /\ Len(lsHistory) <= MAX_HISTORY_ITEMS

C3_Witness ==
    /\ lastRejected
    /\ clock > MAX_HISTORY_ITEMS
    /\ Len(history) = MAX_HISTORY_ITEMS - 1

-----------------------------------------------------------------------------
(* Claims about the quota, checked under SpecQuota *)

LastConsume == consumeLog[Len(consumeLog)]

\* C8: the quota gate of handleGenerateVideo refuses and leaves remaining
\* unchanged when remaining is 0, and otherwise passes and takes exactly one
\* unit; from remaining = 2, three calls give true, true, false and leave 0.
C8_Consume ==
    /\ consumeLog # <<>> =>
          /\ LastConsume.ok = (LastConsume.before # 0)
          /\ videoQuota = IF LastConsume.ok THEN LastConsume.before - 1
                                            ELSE LastConsume.before
          /\ lsQuota = videoQuota
    /\ (Len(consumeLog) = 3 /\ consumeLog[1].before = 2) =>
          /\ <<consumeLog[1].ok, consumeLog[2].ok, consumeLog[3].ok>> = <<TRUE, TRUE, FALSE>>
          /\ videoQuota = 0

C8_Witness ==
    /\ Len(consumeLog) = 3
    /\ consumeLog[1].before = 2
    /\ ~consumeLog[3].ok

\* C9: remaining is never negative, in memory or as persisted; a redeem
\* never lowers it and a consume never raises it.
C9_QuotaNonNegative ==
    /\ videoQuota >= 0
    /\ lsQuota >= 0
    /\ lastRedeem # NoRedeem => videoQuota >= lastRedeem.before
    /\ consumeLog # <<>> => videoQuota <= LastConsume.before

C9_Witness ==
    /\ lastRedeem # NoRedeem
    /\ lastRedeem.ok
    /\ lastRedeem.before = 0
    /\ today = MaxDays

\* C10: once the video job is submitted the unit is already deducted and
\* persisted, and when the job then fails or is cancelled the unit stays
\* deducted: remaining is its value before the call minus 1.
C10_ChargedBeforeSubmit ==
    /\ videoPhase = "submitted" =>
          /\ videoQuota = videoJob.videoQuota - 1
          /\ lsQuota = videoJob.videoQuota - 1
    /\ videoOutcome \in {"failed", "cancelled"} =>
          /\ videoQuota = LastConsume.before - 1
          /\ lsQuota = LastConsume.before - 1

C10_Witness ==
    /\ videoOutcome = "cancelled"
    /\ consumeLog # <<>>
    /\ LastConsume.before = 1
    /\ videoQuota = 0

\* C11: the first quota call observed on a calendar date other than the
\* stored reset date finds remaining reset to DAILY_FREE_QUOTA, and leaves the
\* reset persisted under that date.
C11_ResetOnNewDate ==
    (consumeLog # <<>> /\ LastConsume.storedDate # LastConsume.day) =>
        /\ LastConsume.before = DAILY_FREE_QUOTA
        /\ lsQuotaDate = LastConsume.day

-----------------------------------------------------------------------------
(* Claims about the retrying client, checked under SpecRetry *)

\* C1: in one outer call, whatever the thunk and openSelectKey do, the thunk
\* is invoked at most twice and openSelectKey at most once.
C1_AtMostTwoAttempts ==
    /\ rcFnCalls <= 2
    /\ rcSelectCalls <= 1
    /\ rcAttempt <= 2

C1_Witness ==
    /\ rcPc = "threw"
    /\ rcFnCalls = 2
    /\ rcSelectCalls = 1
    /\ reauthEligible(rcVariant, thrownBy(rcVariant, rcEnv.second))

\* the remote failures the spec classes as PermissionDenied
RemotePermissionDenied(raw) ==
    \/ raw.status = 403
    \/ includes(raw.message, <<"PERMISSION_DENIED">>)
    \/ includes(raw.message, <<"does", "not", "have", "permission">>)

RcFinished == rcPc \in {"returned", "threw"}

\* C2: when the first attempt of a service operation fails with a
\* PermissionDenied failure, the credential reselection succeeds and the
\* second attempt succeeds, the outer call returns successfully and
\* openSelectKey was invoked exactly once.
C2_ReauthThenSuccess ==
    ( /\ RcFinished
      /\ rcVariant = "service"
      /\ rcEnv.first # NoError
      /\ RemotePermissionDenied(rcEnv.first)
      /\ rcEnv.aistudio
      /\ rcEnv.selectOk
      /\ rcEnv.second = NoError )
    => (rcPc = "returned" /\ rcSelectCalls = 1)

-----------------------------------------------------------------------------
(* Claims about the video job poller, checked under SpecPoller *)

GvFinished == gvPc \in {"resolved", "rejected"}

\* C12: when the flag is already set at the first evaluation of the poll
\* loop, generateVideo rejects with the cancellation error and no download
\* of the video file is requested.
C12_CancelBeforeFirstTick ==
    (GvFinished /\ gvFirstTick = "cancelled") =>
        /\ gvPc = "rejected"
        /\ gvRejection = CancelError
        /\ gvFetches = 0

\* the rejection carries the cancellation message, in whatever wrapping
GvRejectedByCancel ==
    /\ gvPc = "rejected"
    /\ includes(gvRejection.message, <<"cancelled", "by", "user">>)

\* C13: when the flag is set while the job is in Polling, no request
\* (status poll or download) is issued between that moment and the
\* rejection by cancellation.
C13_NoCallAfterCancel ==
    (GvRejectedByCancel /\ gvCancelAt = "polling") => gvAfterCancel = 0

\* C14: once generateVideos has accepted the job of a generateVideo call,
\* no error of a status poll or of the download makes the call issue the
\* generateVideos request again.
C14_SubmittedOnce ==
    gvResubmits = 0

-----------------------------------------------------------------------------
(* Claims about the operations, checked under SpecOps *)

\* the step in which the catch block of an image handler runs
ImageOpFails == isLoading /\ ~isLoading' /\ error' = "Generation failed"
\* the step in which the catch block of handleGenerateVideo runs
AnimateFails == isGeneratingVideo /\ ~isGeneratingVideo' /\ videoOutcome' # "resolved"

\* timeline (entries and cursor) and activity log, in memory and stored, are
\* what the attempt found
AsBeforeAttempt ==
    /\ sessionHistory' = opBefore.sessionHistory
    /\ historyIndex' = opBefore.historyIndex
    /\ history' = opBefore.history
    /\ lsHistory' = opBefore.lsHistory

\* C15: a remote operation that fails leaves the timeline (entries and
\* cursor) and the activity log exactly as the attempt found them; the
\* quota is as before for an image operation and lower by the one unit
\* charged before the call for an animation.
C15_FailureLeavesStateAlone ==
    [][ /\ ImageOpFails =>
              /\ AsBeforeAttempt
              /\ videoQuota' = opBefore.videoQuota
              /\ lsQuota' = opBefore.lsQuota
        /\ AnimateFails =>
              /\ AsBeforeAttempt
              /\ videoQuota' = opBefore.videoQuota - 1
              /\ lsQuota' = opBefore.lsQuota - 1 ]_vars

\* an image operation has failed on a timeline whose cursor is below the top
C15_Witness ==
    /\ ~isLoading
    /\ error = "Generation failed"
    /\ sessionHistory # <<>>
    /\ historyIndex < Len(sessionHistory) - 1
    /\ history # <<>>

\* the step in which an image operation, or the animation, succeeds
ImageOpSucceeds == isLoading /\ ~isLoading' /\ error' = ""
AnimateSucceeds == isGeneratingVideo /\ ~isGeneratingVideo' /\ videoOutcome' = "resolved"

\* C16: every remote operation that succeeds, the animation included, puts
\* a new snapshot on top of the timeline with the cursor on it, and
\* appends exactly one record to the activity log.
C16_SuccessPushesAndRecords ==
    [][ (ImageOpSucceeds \/ AnimateSucceeds) =>
            /\ Depth' = Depth + 1
            /\ historyIndex' = Len(sessionHistory') - 1
            /\ Len(history') = Len(history) + 1
            /\ Tail(history') = history ]_vars

-----------------------------------------------------------------------------
(* Claims about routing *)

\* handleGenerate has chosen its operation and awaits it
VoxRouting == isLoading /\ opJob.kind \in GenerateKinds
\* handleSendMessage has chosen its operation and awaits it
ChatRouting == chatLoading /\ chatJob.kind # ""

\* C17, as stated: in the studio and in the chat, combine is selected
\* exactly when at least two images are staged and the instruction implies
\* a merge intent.
C17_CombineNeedsIntent ==
    /\ VoxRouting =>
           (opJob.kind = "combine" <=> (opJob.inputImages >= 2 /\ mergeIntent(opJob.prompt)))
    /\ ChatRouting =>
           (chatJob.kind = "combine" <=> (chatJob.images >= 2 /\ mergeIntent(chatJob.input)))

\* C17, amended: the chat selects combine exactly when at least two images
\* are attached and the instruction contains "combine" or "merge" in any
\* letter case; the studio selects combine exactly when at least two images
\* are staged, whatever the instruction says.
C17_CombineRule ==
    /\ VoxRouting => (opJob.kind = "combine" <=> opJob.inputImages >= 2)
    /\ ChatRouting =>
           (chatJob.kind = "combine" <=> (chatJob.images >= 2 /\ mergeIntent(chatJob.input)))

\* a chat message with two images and no merge word goes to the later rules
C17_Witness ==
    /\ chatLoading
    /\ chatJob.images >= 2
    /\ chatJob.input = "blend"
    /\ chatJob.kind = "chat"

\* C18: when handleGenerate does not combine (fewer than two images are
\* staged), the first rule that matches decides: mask mounted and artifact
\* loaded gives inpaint; otherwise no artifact gives generate; otherwise
\* edit.
C18_FirstMatch ==
    (VoxRouting /\ opJob.inputImages < 2) =>
        opJob.kind = IF opJob.isInpaintingMode /\ opJob.currentImage # NoImage THEN "inpaint"
                     ELSE IF opJob.currentImage = NoImage THEN "generate"
                     ELSE "edit"

\* an inpaint has been routed
C18_Witness ==
    /\ isLoading
    /\ opJob.kind = "inpaint"
    /\ opJob.inputImages < 2

-----------------------------------------------------------------------------
(* Claims about pruning and durability, checked under SpecStore *)

\* the first n records of a list, all of them if it has fewer
Keep(list, n) == SubSeq(list, 1, Min(n, Len(list)))

\* the step of an append whose setItem calls met nothing but capacity
\* rejections and, possibly, a success
AppendStep == clock' = clock + 1 /\ lastSave'.op = "append" /\ lastSave'.final # "other"

StoreStep == lastSave' # NoSave /\ (clock' # clock \/ removals' # removals)

\* C20: after every store operation the list in memory is the list that is
\* stored; an error that is not a capacity rejection leaves the list in
\* memory as it was; clear empties the list in memory only when the
\* durable removal went through.
C20_MemoryFollowsDurable ==
    [][ StoreStep =>
          /\ history' = lsHistory'
          /\ lastSave'.final = "other" => history' = history
          /\ (lastSave'.op = "clear" /\ ~lastSave'.removeOk) => history' = history ]_vars

\* the n records created last, newest first (records are numbered in the
\* order of their creation, clock being the newest)
NewestFirst(n) == [i \in 1 .. n |-> clock + 1 - i]

\* C21: while no storage call has failed and nothing has been removed,
\* after n appends to the empty store the list holds the
\* min(n, MAX_HISTORY_ITEMS) records appended last, newest first, and so
\* does the durable copy.
C21_NewestFirstCapped ==
    (~storeFailed /\ removals = 0) =>
        /\ history = NewestFirst(Min(clock, MAX_HISTORY_ITEMS))
        /\ lsHistory = history

\* one more record than the cap has been appended: the first is gone
C21_Witness ==
    /\ ~storeFailed
    /\ removals = 0
    /\ clock = MAX_HISTORY_ITEMS + 1
    /\ history[Len(history)] = 2

-----------------------------------------------------------------------------
(* Claims about redemption, checked under SpecQuota *)

\* the bonus the static table promises for a code, in whatever letter case
\* it is typed; 0 for a code the table does not have
Bonus(token) ==
    CASE token \in {"VEO-FAST", "veo-fast"} -> 5
      [] token = "GEMINI-VIDEO" -> 10
      [] token = "VXDL-PRO" -> 20
      [] token \in {"DEMO-123", "demo-123"} -> 3
      [] OTHER -> 0

\* C22: handleRedeemToken answers false for a code the table does not have
\* and leaves remaining as it was, in memory and as stored; for a code of
\* the table, in either letter case, it answers true and remaining is its
\* old value plus the bonus of the code, in memory and as stored.
C22_RedeemAddsBonus ==
    lastRedeem # NoRedeem =>
        /\ lastRedeem.ok = (Bonus(lastRedeem.token) # 0)
        /\ videoQuota = lastRedeem.before + Bonus(lastRedeem.token)
        /\ lsQuota = videoQuota

\* the lower-case spelling of a code has been redeemed on top of 3 units
C22_Witness ==
    /\ lastRedeem.token = "demo-123"
    /\ lastRedeem.ok
    /\ lastRedeem.before = 3
    /\ lsQuota = 6

-----------------------------------------------------------------------------
(* Claims about the error that reaches the caller, checked under SpecRetry *)

\* the outer call has thrown after a reselection was started
ThrewAfterReauth == rcPc = "threw" /\ rcSelectCalls = 1

\* the failure that followed the first one: of the retried attempt, of
\* building the new chat, or of the reselection
FurtherFailure ==
    IF rcAttempt = 2 THEN thrownBy(rcVariant, rcEnv.second)
    ELSE IF rcEnv.selectOk THEN ChatNotInitialized
    ELSE SelectRejection

\* C23, as stated: when the first attempt fails with a failure the client
\* reselects the credential for, and the reselection or the retried
\* attempt then fails, the caller receives that further failure.
C23_FurtherFailureSurfaced ==
    ThrewAfterReauth => rcThrown = FurtherFailure

\* C23, amended: in that case the caller receives the error of the first
\* attempt, unmodified; the further failure is dropped.
C23_FirstFailureSurfaced ==
    ThrewAfterReauth => rcThrown = thrownBy(rcVariant, rcEnv.first)

\* the retried attempt has failed with another error than the first
C23_Witness ==
    /\ ThrewAfterReauth
    /\ rcAttempt = 2
    /\ thrownBy(rcVariant, rcEnv.second) # thrownBy(rcVariant, rcEnv.first)

\* an image service was answered with text and no image, and has thrown
RefusedAndThrew ==
    /\ rcPc = "threw"
    /\ rcVariant = "service"
    /\ rcAttempt = 1
    /\ rcEnv.first \in Refusals

\* C24: when the service returns refusal text and no image, the caller
\* receives the error "Model refusal: " followed by that text, word for
\* word, whatever the text says.
C24_RefusalVerbatim ==
    RefusedAndThrew => rcThrown = rcEnv.first

\* a step replaces the current artifact while a mask is pending
ReplacesUnderMask == isInpaintingMode /\ currentImage' # currentImage

\* after the step the old mask is still there and Generate would inpaint with it
OldMaskWouldBeUsed ==
    /\ maskKept(isInpaintingMode, isInpaintingMode')
    /\ voxRoute(inputImages', isInpaintingMode', currentImage') = "inpaint"

\* C25: a step that replaces the current artifact (a successful operation or
\* tool, undo, redo, upload, history selection) discards the pending mask:
\* a Generate that follows does not inpaint the new artifact with the mask
\* painted on the old one.
C25_ReplaceDropsMask == [][ReplacesUnderMask => ~OldMaskWouldBeUsed]_vars

-----------------------------------------------------------------------------
(* Termination of the video job poller, checked under SpecPollerFair *)

GvRunning == gvPc \in {"submitting", "waiting", "polling", "fetching", "selecting"}
GvCompleted == gvPc = "resolved"
GvCancelledOutcome == GvRejectedByCancel
GvFailed == gvPc = "rejected" /\ ~GvRejectedByCancel

-----------------------------------------------------------------------------
(* Undo and redo while an operation is awaited, checked under SpecFlight *)

\* the cursor is no longer where the awaited handler saw it
CursorMovedInFlight == isLoading /\ historyIndex # opJob.historyIndex

\* C27: when undo or redo has moved the cursor while an operation was in
\* flight and the operation then succeeds and pushes, the cursor lies within
\* [-1, length - 1] of the resulting timeline and is on the pushed snapshot.
C27_CursorOnPushedSnapshot ==
    [][ (ImageOpSucceeds /\ CursorMovedInFlight) =>
            /\ historyIndex' \in -1 .. Len(sessionHistory') - 1
            /\ historyIndex' = Len(sessionHistory') - 1 ]_vars

-----------------------------------------------------------------------------
(* Two appending operations in flight together, checked under SpecOverlap *)

\* the operation that now succeeds started before the other one appended
AnimateAfterAppend == AnimateSucceeds /\ videoJob.history # history
ImageOpAfterAppend == ImageOpSucceeds /\ opJob.history # history

\* C28: when two operations that each append a record are in flight together
\* (the animation and an image tool) and both succeed, both records are in
\* list() and in the durable store (the list being below its cap).
C28_BothRecordsKept ==
    [][ ((AnimateAfterAppend \/ ImageOpAfterAppend) /\ Len(history) < MAX_HISTORY_ITEMS) =>
            \A r \in Records(history) \cup {clock'} :
                r \in Records(history') /\ r \in Records(lsHistory') ]_vars

-----------------------------------------------------------------------------
(* Reloading the page, checked under SpecReload *)

\* the step is an append
AppendAccepted == clock' = clock + 1 /\ lastSave'.op = "append"

\* C29: after a reload the list in memory is initialised from the durable
\* store whatever session state is stored (none, member, live guest, expired
\* guest, unreadable), so that a later append never overwrites the records
\* that were persisted (the list being below its cap).
C29_ReloadReadsStore ==
    [][ /\ lastSave'.op = "mount" => history' = lsHistory'
        /\ (AppendAccepted /\ Len(lsHistory) < MAX_HISTORY_ITEMS) =>
               \A r \in Records(lsHistory) : r \in Records(lsHistory') ]_vars

-----------------------------------------------------------------------------
(* Cancellation of a batch, checked under SpecBatch *)

\* C30: once a batch has been cancelled it issues no further generation
\* request and publishes no further result, also when the user starts a new
\* batch while the last request of the cancelled batch is in flight.
C30_CancelledBatchIsSilent ==
    ~cosLateCall /\ ~cosLatePublish

====
